---- MODULE Spec2Model ----
(***************************************************************************)
(* A model of the data pipeline of the Ersatzteilkatalog-Generator:        *)
(*   - Klassen/rule_engine.py : RuleEngine (dependency order, process_row) *)
(*   - Klassen/stueckliste.py : Stueckliste._load_data (row filter,        *)
(*                              projection), BomProcessor (registry, links)*)
(*   - Klassen/config.py      : ConfigManager.get_column_indices           *)
(*                                                                         *)
(* Python strings are sequences of one-character strings, so that strip,   *)
(* split, join, replace and the substring test are computed, not assumed.  *)
(* A row value is a record [k, s]: k = "str" with the characters s, or one *)
(* of the nulls k = "None" (Python None) and k = "nan" (float NaN).        *)
(* A cell of a sheet is a record [k, s, n]: a number (k = "num", n its     *)
(* value in tenths), a text (k = "str", characters s) or blank (k = "nan").*)
(*                                                                         *)
(* Also modelled: MainWindow._add_children_recursively of Klassen/ui.py    *)
(* (the walk of the linked hierarchy) and ConfigManager._load_config. A    *)
(* JSON value is a record [k, d, s]: an object (k = "dict", d its members),*)
(* a text (k = "text", characters s), null or a list.                      *)
(***************************************************************************)
EXTENDS Integers, Sequences, FiniteSets, TLC

VARIABLES
    rules,           \* RuleEngine.rules: rule name -> rule definition
    sorted_rules,    \* RuleEngine.sorted_rules: [isNone, list]
    cycle_nodes,     \* the fields printed as involved in a cycle
    sorted_order,    \* sorted_order at the end of _get_execution_order
    in_degree,       \* in_degree at the end of _get_execution_order
    reached_zero,    \* the rules whose in-degree was seen at zero (queued)
    row_data,        \* the caller's row mapping, as it is after the call
    arg_row,         \* the row mapping as it was passed to process_row
    local_row_data,  \* process_row's working copy when it returned
    generated_data,  \* the mapping process_row returned
    raised,          \* whether the last process_row call raised an exception
    column_mapping,  \* config["column_mapping"]: logical name -> column letter
    workbook,        \* the Excel file: [has_import, ncols, rows]
    is_loaded,       \* Stueckliste.is_loaded
    positionen,      \* Stueckliste.positionen
    load_exit,       \* the statement at which _load_data ended
    df_items,        \* the rows of df_items after the filters of lines 100-102
    zeichnungsnummer, \* Stueckliste.zeichnungsnummer: None or the cleaned number
    generation_rules, \* config["generation_rules"]
    folder,          \* the files of BomProcessor.folder_path: file name -> workbook
    pending,         \* the file names _load_all_boms has still to visit, in order
    stuecklisten,    \* the Stueckliste objects constructed: file name -> object
    boms,            \* BomProcessor.boms: drawing number -> file name of the object
    main_assembly,   \* the object MainWindow._populate_tree was called with
    tree_widget,     \* the child items below the root item of the tree
    recursion_error, \* whether the walk of the hierarchy ended in RecursionError
    config_file,     \* mapping.json on disk: [k, d, writable]
    config,          \* ConfigManager.config
    written,         \* what the last _load_config wrote: "create", "write_back"
    op               \* the last operation: "none", "init", "process_row", "file",
                     \* "file" (a Stueckliste about to load), "load"

vars == <<rules, sorted_rules, cycle_nodes, sorted_order, in_degree, reached_zero,
          row_data, arg_row, local_row_data, generated_data, raised,
          column_mapping, workbook, is_loaded, positionen, load_exit, df_items,
          zeichnungsnummer, generation_rules, folder, pending, stuecklisten, boms,
          main_assembly, tree_widget, recursion_error, config_file, config, written, op>>

runVars == <<generation_rules, folder, pending, stuecklisten, boms,
             main_assembly, tree_widget, recursion_error>>

loaderVars == <<column_mapping, workbook, is_loaded, positionen, load_exit, df_items,
                zeichnungsnummer>>

-----------------------------------------------------------------------------
(* Python values and string functions                                      *)

NONE == "<None>"          \* the key None: the result of dict.get on a missing key
SP == " "
NL == "\n"
BSL == "\\"
SEMI == ";"

StrV(s) == [k |-> "str", s |-> s]
NoneV == [k |-> "None", s |-> <<>>]
NaNV == [k |-> "nan", s |-> <<>>]

\* str(value)
PyStr(v) ==
    CASE v.k = "str" -> v.s
      [] v.k = "None" -> <<"N", "o", "n", "e">>
      [] OTHER -> <<"n", "a", "n">>

\* bool(value): None and "" are falsy, NaN is a non-zero float
Truthy(v) ==
    CASE v.k = "str" -> v.s # <<>>
      [] v.k = "None" -> FALSE
      [] OTHER -> TRUE

\* pd.notna(value)
NotNa(v) == v.k = "str"

IsSpace(c) == c \in {SP, NL}

RECURSIVE LStrip(_)
LStrip(s) ==
    IF s # <<>> /\ IsSpace(Head(s)) THEN LStrip(Tail(s)) ELSE s

RECURSIVE RStrip(_)
RStrip(s) ==
    IF s # <<>> /\ IsSpace(s[Len(s)]) THEN RStrip(SubSeq(s, 1, Len(s) - 1)) ELSE s

\* str.strip()
Strip(s) == RStrip(LStrip(s))

\* str.split(sep) for a one-character separator: always at least one piece
RECURSIVE SplitAcc(_, _, _)
SplitAcc(s, sep, cur) ==
    IF s = <<>> THEN <<cur>>
    ELSE IF Head(s) = sep THEN <<cur>> \o SplitAcc(Tail(s), sep, <<>>)
    ELSE SplitAcc(Tail(s), sep, Append(cur, Head(s)))

Split(s, sep) == SplitAcc(s, sep, <<>>)

\* separator.join(parts)
RECURSIVE Join(_, _)
Join(sep, parts) ==
    IF parts = <<>> THEN <<>>
    ELSE IF Len(parts) = 1 THEN parts[1]
    ELSE parts[1] \o sep \o Join(sep, Tail(parts))

\* s.replace("\\n", "\n"): backslash + n becomes a line break, left to right
RECURSIVE ReplaceEscapedNewline(_)
ReplaceEscapedNewline(s) ==
    IF Len(s) < 2 THEN s
    ELSE IF s[1] = BSL /\ s[2] = "n"
         THEN <<NL>> \o ReplaceEscapedNewline(SubSeq(s, 3, Len(s)))
         ELSE <<s[1]>> \o ReplaceEscapedNewline(Tail(s))

\* sub in s
IsSubstring(sub, s) ==
    \E i \in 1..(Len(s) + 1) :
        /\ i + Len(sub) - 1 <= Len(s)
        /\ SubSeq(s, i, i + Len(sub) - 1) = sub

\* x in list
InList(x, list) == \E i \in 1..Len(list) : list[i] = x

\* dict.get(key, default) on a row
RowGet(row, key, default) == IF key \in DOMAIN row THEN row[key] ELSE default

\* row[key] = value
RowSet(row, key, value) ==
    [f \in (DOMAIN row) \cup {key} |-> IF f = key THEN value ELSE row[f]]

EmptyMap == [f \in {} |-> NoneV]

\* no BomProcessor has been constructed
NoProcessor ==
    /\ generation_rules = EmptyMap
    /\ folder = EmptyMap
    /\ pending = <<>>
    /\ stuecklisten = EmptyMap
    /\ boms = EmptyMap
    /\ main_assembly = NONE
    /\ tree_widget = {}
    /\ recursion_error = FALSE

\* no ConfigManager has been constructed
NoConfig ==
    /\ config_file = [k |-> "missing", d |-> EmptyMap, writable |-> TRUE]
    /\ config = EmptyMap
    /\ written = {}

\* no Stueckliste has been constructed
NoStueckliste ==
    /\ column_mapping = EmptyMap
    /\ workbook = [has_import |-> FALSE, znr |-> NoneV, ncols |-> 0, rows |-> <<>>]
    /\ is_loaded = FALSE
    /\ positionen = <<>>
    /\ load_exit = "none"
    /\ df_items = <<>>
    /\ zeichnungsnummer = NoneV

-----------------------------------------------------------------------------
(* Rule definitions: records in which any key may be missing               *)

\* rule.get("type")
RuleType(rule) == IF "type" \in DOMAIN rule THEN rule.type ELSE NONE

\* rule.get("sources", [])
RuleSourceList(rule) == IF "sources" \in DOMAIN rule THEN rule.sources ELSE <<>>

\* rule.get("separator", " ")
RuleSeparator(rule) == IF "separator" \in DOMAIN rule THEN rule.separator ELSE <<SP>>

\* rule.get("if", {}), rule.get("then", {}), rule.get("else", {})
RuleClause(rule, key) == IF key \in DOMAIN rule THEN rule[key] ELSE <<>>

\* clause.get("source"), if_clause.get("operator")
ClauseGet(clause, key) == IF key \in DOMAIN clause THEN clause[key] ELSE NONE

\* ClauseValue for if_clause.get("value"): None when the key is missing
ClauseValueWithoutDefault(clause) ==
    IF "value" \in DOMAIN clause THEN clause.value ELSE NoneV

\* if_clause.get("value", ""): a value of the configuration file, a string or null
ClauseValue(clause) ==
    IF "value" \in DOMAIN clause THEN clause.value ELSE StrV(<<>>)

-----------------------------------------------------------------------------
(* RuleEngine._get_execution_order                                         *)

NameUniverse == <<"A", "B", "C", "D", "Benennung_Formatiert", "Bestellnummer_Kunde">>

\* the keys of self.rules in dict order (the order the configuration lists them)
RuleNames(r) ==
    SelectSeq(NameUniverse, LAMBDA n : n \in DOMAIN r)

\* RuleSources with the then-source of a conditional not collected
RuleSourcesWithoutThen(rule) ==
    IF RuleType(rule) \in {"prioritized_list", "combine"}
    THEN RuleSourceList(rule)
    ELSE IF RuleType(rule) = "conditional"
    THEN << ClauseGet(RuleClause(rule, "if"), "source"),
            ClauseGet(RuleClause(rule, "else"), "source") >>
    ELSE <<>>

\* the sources collected for one rule before filtering
RuleSources(rule) ==
    IF RuleType(rule) \in {"prioritized_list", "combine"}
    THEN RuleSourceList(rule)
    ELSE IF RuleType(rule) = "conditional"
    THEN << ClauseGet(RuleClause(rule, "if"), "source"),
            ClauseGet(RuleClause(rule, "then"), "source"),
            ClauseGet(RuleClause(rule, "else"), "source") >>
    ELSE <<>>

\* filter(None, sources): None and the empty name are dropped
FilterSources(sources) ==
    SelectSeq(sources, LAMBDA s : s # NONE /\ s # "")

\* AddEdge that adds no edge from a rule to itself
AddEdgeSkippingSelf(r, G, target_field, source) ==
    IF source \in DOMAIN r /\ source # target_field
    THEN [graph |-> [G.graph EXCEPT ![source] = Append(@, target_field)],
          in_degree |-> [G.in_degree EXCEPT ![target_field] = @ + 1]]
    ELSE G

\* AddEdge that lists a target once among the neighbors of a source, while
\* counting every mention in in_degree
AddEdgeOnce(r, G, target_field, source) ==
    IF source \in DOMAIN r
    THEN [graph |-> [G.graph EXCEPT ![source] =
                        IF \E i \in 1..Len(@) : @[i] = target_field
                        THEN @ ELSE Append(@, target_field)],
          in_degree |-> [G.in_degree EXCEPT ![target_field] = @ + 1]]
    ELSE G

\* one source of target_field: an edge source -> target when source is a rule
AddEdge(r, G, target_field, source) ==
    IF source \in DOMAIN r
    THEN [graph |-> [G.graph EXCEPT ![source] = Append(@, target_field)],
          in_degree |-> [G.in_degree EXCEPT ![target_field] = @ + 1]]
    ELSE G

RECURSIVE AddEdges(_, _, _, _)
AddEdges(r, G, target_field, sources) ==
    IF sources = <<>> THEN G
    ELSE AddEdges(r, AddEdge(r, G, target_field, Head(sources)),
                  target_field, Tail(sources))

RECURSIVE BuildGraphFrom(_, _, _)
BuildGraphFrom(r, names, G) ==
    IF names = <<>> THEN G
    ELSE BuildGraphFrom(r, Tail(names),
             AddEdges(r, G, Head(names), FilterSources(RuleSources(r[Head(names)]))))

\* steps 1 and 2: graph and in_degree
BuildGraph(r) ==
    BuildGraphFrom(r, RuleNames(r),
        [graph |-> [n \in DOMAIN r |-> <<>>], in_degree |-> [n \in DOMAIN r |-> 0]])

\* deque([name for name, degree in in_degree.items() if degree == 0])
InitialQueue(r, deg) ==
    SelectSeq(RuleNames(r), LAMBDA n : deg[n] = 0)

\* the body of "for neighbor in graph[node]" for one neighbor
RelaxNeighbor(K, neighbor) ==
    LET d == K.in_degree[neighbor] - 1
    IN  [K EXCEPT !.in_degree[neighbor] = d,
                  !.queue = IF d = 0 THEN Append(@, neighbor) ELSE @,
                  !.reached_zero = IF d = 0 THEN @ \cup {neighbor} ELSE @]

RECURSIVE RelaxNeighbors(_, _)
RelaxNeighbors(K, neighbors) ==
    IF neighbors = <<>> THEN K
    ELSE RelaxNeighbors(RelaxNeighbor(K, Head(neighbors)), Tail(neighbors))

\* while queue: popleft, append to sorted_order, relax the neighbors
RECURSIVE KahnLoop(_, _)
KahnLoop(graph, K) ==
    IF K.queue = <<>> THEN K
    ELSE LET node == Head(K.queue)
             popped == [K EXCEPT !.queue = Tail(@),
                                 !.sorted_order = Append(@, node)]
         IN  KahnLoop(graph, RelaxNeighbors(popped, graph[node]))

\* OrderResult that returns what was sorted, complete or not
OrderResultPartial(r, order) == [isNone |-> FALSE, list |-> order]

\* step 4: the list when it holds every rule, None otherwise
OrderResult(r, order) ==
    IF Len(order) = Cardinality(DOMAIN r)
    THEN [isNone |-> FALSE, list |-> order]
    ELSE [isNone |-> TRUE, list |-> <<>>]

\* CycleNodes with the comparison off by one
CycleNodesAboveOne(r, order, deg) ==
    IF Len(order) = Cardinality(DOMAIN r)
    THEN {}
    ELSE {n \in DOMAIN r : deg[n] > 1}

\* {name for name, degree in in_degree.items() if degree > 0}, printed on a cycle
CycleNodes(r, order, deg) ==
    IF Len(order) = Cardinality(DOMAIN r)
    THEN {}
    ELSE {n \in DOMAIN r : deg[n] > 0}

GetExecutionOrder(r) ==
    LET G == BuildGraph(r)
        q == InitialQueue(r, G.in_degree)
        K == KahnLoop(G.graph,
                 [queue |-> q, sorted_order |-> <<>>, in_degree |-> G.in_degree,
                  reached_zero |-> {q[i] : i \in 1..Len(q)}])
    IN  [sorted_rules |-> OrderResult(r, K.sorted_order),
         sorted_order |-> K.sorted_order,
         in_degree |-> K.in_degree,
         reached_zero |-> K.reached_zero,
         cycle_nodes |-> CycleNodes(r, K.sorted_order, K.in_degree)]

-----------------------------------------------------------------------------
(* The three rule kinds                                                    *)

RECURSIVE ApplyPrioritizedListFrom(_, _)
ApplyPrioritizedListFrom(sources, row) ==
    IF sources = <<>> THEN <<>>
    ELSE LET value == RowGet(row, Head(sources), NoneV)
         IN  IF Truthy(value) /\ NotNa(value)
             THEN Strip(PyStr(value))
             ELSE ApplyPrioritizedListFrom(Tail(sources), row)

ApplyPrioritizedList(rule, row) ==
    ApplyPrioritizedListFrom(RuleSourceList(rule), row)

RECURSIVE CombineParts(_, _)
CombineParts(sources, row) ==
    IF sources = <<>> THEN <<>>
    ELSE LET value == RowGet(row, Head(sources), NoneV)
         IN  (IF Truthy(value) /\ NotNa(value)
              THEN <<Strip(PyStr(value))>> ELSE <<>>)
             \o CombineParts(Tail(sources), row)

ApplyCombine(rule, row) ==
    Join(ReplaceEscapedNewline(RuleSeparator(rule)),
         CombineParts(RuleSourceList(rule), row))

\* compare_value.split(';') raises AttributeError when compare_value is no str
ConditionRaises(operator, compare_value) ==
    /\ operator \notin {"is_empty", "is_not_empty"}
    /\ compare_value.k # "str"

EvaluateCondition(source_value, operator, compare_value) ==
    LET pieces == Split(compare_value.s, SEMI)
        compare_list == [i \in 1..Len(pieces) |-> Strip(pieces[i])]
    IN  CASE operator = "is_empty" -> source_value = <<>>
          [] operator = "is_not_empty" -> source_value # <<>>
          [] operator = "is" -> InList(source_value, compare_list)
          [] operator = "is_not" -> ~InList(source_value, compare_list)
          [] operator = "contains" ->
                \E i \in 1..Len(compare_list) : IsSubstring(compare_list[i], source_value)
          [] OTHER -> FALSE

\* str(row_data.get(if_clause.get("source"), "")).strip()
ConditionSourceValue(if_clause, row) ==
    Strip(PyStr(RowGet(row, ClauseGet(if_clause, "source"), StrV(<<>>))))

ApplyConditional(rule, row) ==
    LET if_clause == RuleClause(rule, "if")
        then_clause == RuleClause(rule, "then")
        else_clause == RuleClause(rule, "else")
        source_value == ConditionSourceValue(if_clause, row)
        condition_met == EvaluateCondition(source_value,
                             ClauseGet(if_clause, "operator"), ClauseValue(if_clause))
        result_source == IF condition_met THEN ClauseGet(then_clause, "source")
                                          ELSE ClauseGet(else_clause, "source")
        final_value == RowGet(row, result_source, NoneV)
    IN  IF Truthy(final_value) /\ NotNa(final_value)
        THEN Strip(PyStr(final_value)) ELSE <<>>

-----------------------------------------------------------------------------
(* RuleEngine.process_row                                                  *)

\* not self.sorted_rules: None, and the empty list as well
EngineDisabled(sorted) == sorted.isNone \/ sorted.list = <<>>

\* the dispatch on rule_type; result stays "" for any other type
ApplyRule(rule, row) ==
    CASE RuleType(rule) = "prioritized_list" -> ApplyPrioritizedList(rule, row)
      [] RuleType(rule) = "combine" -> ApplyCombine(rule, row)
      [] RuleType(rule) = "conditional" -> ApplyConditional(rule, row)
      [] OTHER -> <<>>

\* CopiesRow for local_row_data = row_data (no copy)
CopiesRowNot == FALSE

\* whether applying the rule raises instead of returning a result
RuleRaises(rule) ==
    /\ RuleType(rule) = "conditional"
    /\ ConditionRaises(ClauseGet(RuleClause(rule, "if"), "operator"),
                       ClauseValue(RuleClause(rule, "if")))

\* row_data.copy(): the working mapping is a new object, not the caller's
CopiesRow == TRUE

\* local_row_data = row_data.copy(): nothing of an earlier call is kept
StartLocal(row, old_local) == row

\* StoreLocal that does not make the result available to the next rules
StoreLocalDropped(local, target_field, result) == local

\* local_row_data[target_field] = result
StoreLocal(local, target_field, result) == RowSet(local, target_field, StrV(result))

\* StoreGenerated that keeps no entry for an empty result
StoreGeneratedNonEmpty(generated, target_field, result) ==
    IF result = <<>> THEN generated
    ELSE RowSet(generated, target_field, StrV(result))

\* generated_data[target_field] = result
StoreGenerated(generated, target_field, result) ==
    RowSet(generated, target_field, StrV(result))

RECURSIVE RunRules(_, _, _)
RunRules(r, order, st) ==
    IF order = <<>> THEN st
    ELSE IF RuleRaises(r[Head(order)]) THEN [st EXCEPT !.raised = TRUE]
    ELSE LET target_field == Head(order)
             result == ApplyRule(r[target_field], st.local)
         IN  RunRules(r, Tail(order),
                 [local |-> StoreLocal(st.local, target_field, result),
                  generated |-> StoreGenerated(st.generated, target_field, result),
                  raised |-> FALSE])

\* the call's outcome: the returned mapping (none when the call raised), the
\* working copy, and the caller's mapping afterwards (the working copy itself
\* when it is no copy)
ProcessRowResult(r, sorted, row, old_local) ==
    IF EngineDisabled(sorted)
    THEN [generated |-> EmptyMap, local |-> old_local, caller |-> row,
          raised |-> FALSE]
    ELSE LET st == RunRules(r, sorted.list,
                       [local |-> StartLocal(row, old_local), generated |-> EmptyMap,
                        raised |-> FALSE])
         IN  [generated |-> st.generated, local |-> st.local,
              caller |-> IF CopiesRow THEN row ELSE st.local,
              raised |-> st.raised]

-----------------------------------------------------------------------------
(* The configurations and rows the engine is driven with                   *)

MaxRules == 3

\* the rule names of a configuration with n rules
Names(n) == {NameUniverse[i] : i \in 1..n}

\* the name after r among the first n names, cyclically
NextName(r, n) ==
    LET i == CHOOSE j \in 1..n : NameUniverse[j] = r
    IN  NameUniverse[(i % n) + 1]

\* rule definitions that refer to raw fields and to the rules of the configuration
GraphRuleMenu(n) ==
    {[type |-> "prioritized_list", sources |-> <<"x">>],
     [type |-> "lookup", sources |-> <<"A">>],
     [type |-> "combine", sources |-> <<"A", "A">>, separator |-> <<"-">>]}
    \cup {[type |-> "prioritized_list", sources |-> <<r, "x">>] : r \in Names(n)}
    \cup {[type |-> "conditional",
           if |-> [source |-> r, operator |-> "is_empty"],
           then |-> [source |-> NextName(r, n)],
           else |-> [source |-> r]] : r \in Names(n)}
    \cup {[type |-> "conditional",
           if |-> [source |-> "A", operator |-> "is_not_empty"],
           then |-> [source |-> "A"],
           else |-> [source |-> "x"]]}

GraphRuleSets ==
    UNION {[Names(n) -> GraphRuleMenu(n)] : n \in 0..MaxRules}

\* rows with the raw field x and, in some, a raw field named like rule A
GraphRows ==
    {EmptyMap,
     [f \in {"x"} |-> StrV(<<"a">>)],
     [f \in {"x", "A"} |-> IF f = "x" THEN StrV(<<"a">>) ELSE StrV(<<"b">>)]}

-----------------------------------------------------------------------------
(* Operations                                                              *)

NoOrder == [isNone |-> TRUE, list |-> <<>>]

Init ==
    /\ rules = <<>>
    /\ sorted_rules = NoOrder
    /\ cycle_nodes = {}
    /\ sorted_order = <<>>
    /\ in_degree = <<>>
    /\ reached_zero = {}
    /\ row_data = EmptyMap
    /\ arg_row = EmptyMap
    /\ local_row_data = EmptyMap
    /\ generated_data = EmptyMap
    /\ raised = FALSE
    /\ NoStueckliste
    /\ NoProcessor
    /\ NoConfig
    /\ op = "none"

\* RuleEngine.__init__(rules)
NewEngine(r) ==
    /\ op = "none"
    /\ LET e == GetExecutionOrder(r)
       IN  /\ rules' = r
           /\ sorted_rules' = e.sorted_rules
           /\ cycle_nodes' = e.cycle_nodes
           /\ sorted_order' = e.sorted_order
           /\ in_degree' = e.in_degree
           /\ reached_zero' = e.reached_zero
    /\ op' = "init"
    /\ UNCHANGED <<row_data, arg_row, local_row_data, generated_data, raised>>
    /\ UNCHANGED loaderVars
    /\ UNCHANGED runVars
    /\ UNCHANGED <<config_file, config, written>>

\* the for loop reads self.sorted_rules and leaves the list as it is
OrderAfterRun(sorted) == sorted

\* RuleEngine.process_row(row)
ProcessRow(row) ==
    /\ op # "none"
    /\ LET res == ProcessRowResult(rules, sorted_rules, row, local_row_data)
       IN  /\ generated_data' = IF res.raised THEN generated_data ELSE res.generated
           /\ raised' = res.raised
           /\ local_row_data' = res.local
           /\ row_data' = res.caller
    /\ arg_row' = row
    /\ sorted_rules' = OrderAfterRun(sorted_rules)
    /\ op' = "process_row"
    /\ UNCHANGED <<rules, cycle_nodes, sorted_order, in_degree, reached_zero>>
    /\ UNCHANGED loaderVars
    /\ UNCHANGED runVars
    /\ UNCHANGED <<config_file, config, written>>

Next ==
    \/ \E r \in GraphRuleSets : NewEngine(r)
    \/ \E row \in GraphRows : ProcessRow(row)

Spec == Init /\ [][Next]_vars

-----------------------------------------------------------------------------
(* One rule applied to one row: the rule kinds on values of every sort     *)

\* the values a cell of each raw field takes; a field may also be absent
FieldValues(f) ==
    CASE f = "x" -> {NoneV, NaNV, StrV(<<>>), StrV(<<SP>>), StrV(<<SP, "a", SP>>),
                     StrV(<<"a", "b">>), StrV(<<"b">>)}
      [] f = "y" -> {NoneV, StrV(<<>>), StrV(<<SP>>), StrV(<<"b", SP>>)}
      [] OTHER -> {StrV(<<"c">>)}

ApplyRows ==
    UNION {{row \in [D -> UNION {FieldValues(f) : f \in D}] :
               \A f \in D : row[f] \in FieldValues(f)} : D \in SUBSET {"x", "y", "z"}}

\* comparison values as the configuration file holds them
CompareValues ==
    {StrV(<<"a">>), StrV(<<"a", SEMI, "b">>), StrV(<<SP, "a", SP, SEMI, SP, "b">>),
     StrV(<<>>), StrV(<<"b", SEMI>>)}

\* a conditional on x that copies y when the condition holds and z otherwise
ConditionalOn(if_clause) ==
    [type |-> "conditional", if |-> if_clause,
     then |-> [source |-> "y"], else |-> [source |-> "z"]]

WellFormedRules ==
    {[type |-> "prioritized_list", sources |-> s] :
        s \in {<<"x", "y">>, <<"y", "x">>, <<"x">>, <<>>}}
    \cup {[type |-> "combine", sources |-> <<"x", "y">>, separator |-> <<"-">>],
          [type |-> "combine", sources |-> <<"x", "y", "z">>, separator |-> <<BSL, "n">>],
          [type |-> "combine", sources |-> <<"y", "x">>, separator |-> <<SP>>],
          [type |-> "combine", sources |-> <<"x", "y">>],
          [type |-> "combine", sources |-> <<>>, separator |-> <<"-">>]}
    \cup {ConditionalOn([source |-> "x", operator |-> o, value |-> v]) :
             o \in {"is", "is_not", "contains"}, v \in CompareValues}
    \cup {ConditionalOn([source |-> "x", operator |-> o, value |-> StrV(<<>>)]) :
             o \in {"is_empty", "is_not_empty"}}

\* definitions with a key missing or a type the engine does not know
MalformedRules ==
    {[sources |-> <<"x", "y">>],
     [type |-> "lookup", sources |-> <<"x", "y">>],
     [type |-> "prioritized_list"],
     [type |-> "combine", separator |-> <<"-">>],
     [type |-> "conditional"],
     [type |-> "conditional", then |-> [source |-> "y"], else |-> [source |-> "z"]],
     [type |-> "conditional", if |-> [source |-> "x", operator |-> "is_empty"],
      else |-> [source |-> "z"]],
     [type |-> "conditional", if |-> [source |-> "x", operator |-> "is_empty"],
      then |-> [source |-> "y"]],
     ConditionalOn([source |-> "x", value |-> StrV(<<"a">>)]),
     ConditionalOn([source |-> "x"]),
     ConditionalOn([operator |-> "is_empty"])}
    \cup {ConditionalOn([source |-> "x", operator |-> o]) :
             o \in {"is", "is_not", "contains"}}

\* definitions whose comparison value is null, or whose operator is unknown
OddRules ==
    {ConditionalOn([source |-> "x", operator |-> "is", value |-> NoneV]),
     ConditionalOn([source |-> "x", operator |-> "matches", value |-> StrV(<<"a">>)])}

\* rule A is the rule looked at; B, when configured, is a plain rule beside it
ApplyRuleSets ==
    LET menu == WellFormedRules \cup MalformedRules \cup OddRules
    IN  {[n \in {"A"} |-> a] : a \in menu}
        \cup {[n \in {"A", "B"} |->
                 IF n = "A" THEN a ELSE [type |-> "prioritized_list", sources |-> <<"y">>]]
              : a \in menu}

\* an engine constructed for r, about to be given row
InitApply ==
    \E r \in ApplyRuleSets, row \in ApplyRows :
        LET e == GetExecutionOrder(r)
        IN  /\ rules = r
            /\ sorted_rules = e.sorted_rules
            /\ cycle_nodes = e.cycle_nodes
            /\ sorted_order = e.sorted_order
            /\ in_degree = e.in_degree
            /\ reached_zero = e.reached_zero
            /\ row_data = row
            /\ arg_row = row
            /\ local_row_data = EmptyMap
            /\ generated_data = EmptyMap
            /\ raised = FALSE
            /\ NoStueckliste
            /\ NoProcessor
            /\ NoConfig
            /\ op = "init"

NextApply == op = "init" /\ ProcessRow(row_data)

SpecApply == InitApply /\ [][NextApply]_vars

-----------------------------------------------------------------------------
(* What the claims speak of, stated on the rule definitions themselves     *)

\* the sources a rule definition declares, by rule kind
DeclaredSources(rule) ==
    IF "type" \notin DOMAIN rule THEN {}
    ELSE IF rule.type \in {"prioritized_list", "combine"}
    THEN (IF "sources" \in DOMAIN rule
          THEN {rule.sources[i] : i \in 1..Len(rule.sources)} ELSE {})
    ELSE IF rule.type = "conditional"
    THEN {rule[c].source : c \in {c \in {"if", "then", "else"} :
                                    c \in DOMAIN rule /\ "source" \in DOMAIN rule[c]}}
    ELSE {}

\* the rules that rule T reads
ReadsFrom(T) == DeclaredSources(rules[T]) \cap DOMAIN rules

RECURSIVE ReadsClosure(_, _)
ReadsClosure(S, k) ==
    IF k = 0 THEN S
    ELSE ReadsClosure(S \cup UNION {ReadsFrom(m) : m \in S}, k - 1)

\* every rule that T reads, directly or through other rules
ReadsTransitively(T) == ReadsClosure(ReadsFrom(T), Cardinality(DOMAIN rules))

OnCycle(T) == T \in ReadsTransitively(T)

HasCycle == \E T \in DOMAIN rules : OnCycle(T)

Position(list, n) == CHOOSE i \in 1..Len(list) : list[i] = n

Elements(list) == {list[i] : i \in 1..Len(list)}

-----------------------------------------------------------------------------
\* C1: for an acyclic rule set the execution order is a permutation of the
\* rule names in which every rule comes strictly after each rule it reads.
ExecutionOrderIsTopological ==
    (op # "none" /\ ~HasCycle) =>
        /\ ~sorted_rules.isNone
        /\ Len(sorted_rules.list) = Cardinality(DOMAIN rules)
        /\ Elements(sorted_rules.list) = DOMAIN rules
        /\ \A T \in DOMAIN rules : \A S \in ReadsFrom(T) :
               Position(sorted_rules.list, S) < Position(sorted_rules.list, T)

\* C1 witness: three rules whose order had to be reversed (A reads B reads C)
ExecutionOrderReversed ==
    /\ op = "init"
    /\ ~HasCycle
    /\ sorted_rules.list = <<"C", "B", "A">>
    /\ "B" \in ReadsFrom("A")
    /\ "C" \in ReadsFrom("B")

\* C2: with a cycle among the rules process_row returns the empty mapping for
\* every row, also when some rule does not depend on the cycle.
CycleDisablesEvaluation ==
    (op # "none" /\ HasCycle) =>
        /\ sorted_rules.isNone
        /\ op = "process_row" => generated_data = EmptyMap

\* C2 witness: A and B read each other, C reads only the raw field x, which
\* the row holds; process_row was called
CycleWithIndependentRule ==
    /\ op = "process_row"
    /\ DOMAIN rules = {"A", "B", "C"}
    /\ "B" \in ReadsFrom("A")
    /\ "A" \in ReadsFrom("B")
    /\ ReadsFrom("C") = {}
    /\ rules["C"].type = "prioritized_list"
    /\ "x" \in DOMAIN arg_row
    /\ generated_data = EmptyMap

\* C3: on a cycle the reported fields are the rules whose in-degree never
\* reached zero, which are the rules missing from the sorted output; they
\* include every rule on a cycle, and are {A, B} for A reads B, B reads A.
CycleNodesAreTheUnsorted ==
    (op # "none" /\ HasCycle) =>
        /\ cycle_nodes = DOMAIN rules \ reached_zero
        /\ cycle_nodes = DOMAIN rules \ Elements(sorted_order)
        /\ {T \in DOMAIN rules : OnCycle(T)} \subseteq cycle_nodes
        /\ (DOMAIN rules = {"A", "B"} /\ ReadsFrom("A") = {"B"} /\ ReadsFrom("B") = {"A"})
               => cycle_nodes = {"A", "B"}

\* C3 witness: A and B form a cycle and a third rule is sorted
CycleOfTwoReported ==
    /\ op = "init"
    /\ cycle_nodes = {"A", "B"}
    /\ OnCycle("A") /\ OnCycle("B")
    /\ sorted_order = <<"C">>

\* the mapping rule number i of the order sees: the passed row, overlaid with
\* the results of the rules before it
RowSeenBy(i) ==
    LET earlier == {sorted_rules.list[j] : j \in 1..(i - 1)}
    IN  [f \in (DOMAIN arg_row) \cup earlier |->
            IF f \in earlier THEN generated_data[f] ELSE arg_row[f]]

\* C4: each rule's result is stored under the rule's name and is what later
\* rules of the same call read, also when the row has a raw field of that
\* name; nothing but the passed row and these results is read.
ResultsFeedLaterRules ==
    (op = "process_row" /\ ~EngineDisabled(sorted_rules)) =>
        /\ DOMAIN generated_data = DOMAIN rules
        /\ \A i \in 1..Len(sorted_rules.list) :
               generated_data[sorted_rules.list[i]] =
                   StrV(ApplyRule(rules[sorted_rules.list[i]], RowSeenBy(i)))

\* C4 witness: B reads A, the row has a raw field A with another value, and
\* B got A's generated value
GeneratedShadowsRaw ==
    /\ op = "process_row"
    /\ DOMAIN rules = {"A", "B"}
    /\ rules["B"] = [type |-> "prioritized_list", sources |-> <<"A", "x">>]
    /\ "A" \in DOMAIN arg_row
    /\ generated_data["A"] # arg_row["A"]
    /\ generated_data["A"].s # <<>>
    /\ generated_data["B"] = generated_data["A"]

\* C5: process_row leaves the caller's row, the rules and the execution order
\* as they were, and a second call with the same row returns the same mapping.
ProcessRowHasNoSideEffect ==
    [][op' = "process_row" =>
          /\ row_data' = arg_row'
          /\ rules' = rules
          /\ sorted_rules' = sorted_rules
          /\ (op = "process_row" /\ arg_row' = arg_row)
                 => generated_data' = generated_data]_vars

\* C5 witness: a call generated a field whose name the row also has, and the
\* caller's row still holds its own value
CallerRowKept ==
    /\ op = "process_row"
    /\ "A" \in DOMAIN generated_data
    /\ "A" \in DOMAIN row_data
    /\ row_data["A"] # generated_data["A"]
    /\ row_data = arg_row

-----------------------------------------------------------------------------
(* The rule kinds as the claims describe them                              *)

IsKind(rule, kind) == "type" \in DOMAIN rule /\ rule.type = kind

\* the field is present and holds a string that is not empty after trimming
HasText(row, f) == f \in DOMAIN row /\ row[f].k = "str" /\ Strip(row[f].s) # <<>>

\* the trimmed value of the field; empty for a missing, null or blank field
TextOf(row, f) == IF HasText(row, f) THEN Strip(row[f].s) ELSE <<>>

Least(S) == CHOOSE i \in S : \A j \in S : i <= j

\* the trimmed values of the sources that have text, in listed order
RECURSIVE TextParts(_, _)
TextParts(sources, row) ==
    IF sources = <<>> THEN <<>>
    ELSE (IF HasText(row, Head(sources)) THEN <<TextOf(row, Head(sources))>> ELSE <<>>)
         \o TextParts(Tail(sources), row)

\* the literals of a semicolon-delimited comparison value, trimmed
Literals(value) ==
    {Strip(Split(value, SEMI)[i]) : i \in 1..Len(Split(value, SEMI))}

\* the five operators of a conditional rule on the text of if.source
TestHolds(operator, text, literals) ==
    CASE operator = "is" -> text \in literals
      [] operator = "is_not" -> text \notin literals
      [] operator = "is_empty" -> text = <<>>
      [] operator = "is_not_empty" -> text # <<>>
      [] operator = "contains" -> \E l \in literals : IsSubstring(l, text)

KnownOperators == {"is", "is_not", "is_empty", "is_not_empty", "contains"}

\* a conditional rule with every clause, a known operator and a string value
IsCompleteConditional(rule) ==
    /\ IsKind(rule, "conditional")
    /\ {"if", "then", "else"} \subseteq DOMAIN rule
    /\ {"source", "operator", "value"} \subseteq DOMAIN rule["if"]
    /\ rule["if"].operator \in KnownOperators
    /\ rule["if"].value.k = "str"
    /\ "source" \in DOMAIN rule["then"]
    /\ "source" \in DOMAIN rule["else"]

\* C6: a prioritized_list rule returns the trimmed value of the first source
\* whose trimmed value is non-empty and non-null, and "" when there is none.
PrioritizedListTakesFirstText ==
    (op = "process_row" /\ "A" \in DOMAIN rules
        /\ IsKind(rules["A"], "prioritized_list") /\ "sources" \in DOMAIN rules["A"]) =>
        LET src == rules["A"].sources
            hits == {i \in 1..Len(src) : HasText(arg_row, src[i])}
        IN  /\ ~raised
            /\ generated_data["A"] =
                   StrV(IF hits = {} THEN <<>> ELSE TextOf(arg_row, src[Least(hits)]))

\* C7: a combine rule joins, with the separator (backslash-n read as a line
\* break), the trimmed values of exactly the sources that are non-empty after
\* trimming, in listed order; no part and no separator for the others.
CombineJoinsSourcesWithText ==
    (op = "process_row" /\ "A" \in DOMAIN rules
        /\ IsKind(rules["A"], "combine")
        /\ {"sources", "separator"} \subseteq DOMAIN rules["A"]) =>
        /\ ~raised
        /\ generated_data["A"] =
               StrV(Join(ReplaceEscapedNewline(rules["A"].separator),
                         TextParts(rules["A"].sources, arg_row)))

\* C8: a conditional rule tests the trimmed value of if.source, a missing,
\* null or empty field counting as empty, and returns the trimmed value of
\* then.source when the test holds and of else.source otherwise.
ConditionalCopiesChosenSource ==
    (op = "process_row" /\ "A" \in DOMAIN rules /\ IsCompleteConditional(rules["A"])) =>
        LET rule == rules["A"]
            holds == TestHolds(rule["if"].operator, TextOf(arg_row, rule["if"].source),
                               Literals(rule["if"].value.s))
        IN  /\ ~raised
            /\ generated_data["A"] =
                   StrV(TextOf(arg_row, IF holds THEN rule["then"].source
                                                 ELSE rule["else"].source))


\* the string the engine tests for if.source: the trimmed str() of the value,
\* empty for a field the row does not have
StringForm(row, f) == IF f \in DOMAIN row THEN Strip(PyStr(row[f])) ELSE <<>>

\* the trimmed value of the source a clause names; empty when the rule has
\* no such clause or the clause names no source
ClauseText(rule, clause, row) ==
    IF clause \in DOMAIN rule /\ "source" \in DOMAIN rule[clause]
    THEN TextOf(row, rule[clause].source) ELSE <<>>

\* whether the condition of a conditional rule with missing keys holds: never
\* without an operator; a missing source reads as empty, a missing comparison
\* value as the single empty literal
DefaultedTestHolds(rule, row) ==
    /\ "if" \in DOMAIN rule
    /\ "operator" \in DOMAIN rule["if"]
    /\ rule["if"].operator \in KnownOperators
    /\ TestHolds(rule["if"].operator,
                 IF "source" \in DOMAIN rule["if"]
                 THEN StringForm(row, rule["if"].source) ELSE <<>>,
                 IF "value" \in DOMAIN rule["if"]
                 THEN Literals(rule["if"].value.s) ELSE {<<>>})

\* rule B, a plain rule beside the malformed one, has its usual result
OtherRuleEvaluated ==
    "B" \in DOMAIN rules => generated_data["B"] = StrV(TextOf(arg_row, "y"))

MalformedRuleCalled ==
    op = "process_row" /\ "A" \in DOMAIN rules /\ rules["A"] \in MalformedRules

\* C9 as claimed: a malformed rule definition yields the empty string for its
\* field, process_row does not raise, and the other rules are evaluated.
MalformedRuleYieldsEmpty ==
    MalformedRuleCalled =>
        /\ ~raised
        /\ generated_data["A"] = StrV(<<>>)
        /\ OtherRuleEvaluated

\* C9 amended: a rule definition with missing keys never makes process_row
\* raise and leaves the other rules' results alone; its field is empty for an
\* unknown or missing type and for missing sources, while a conditional with
\* missing keys is evaluated with defaults (no operator: the else branch) and
\* returns the trimmed value of the branch taken, empty when that clause is
\* missing.
MalformedRuleUsesDefaults ==
    MalformedRuleCalled =>
        /\ ~raised
        /\ OtherRuleEvaluated
        /\ generated_data["A"] =
               StrV(IF IsKind(rules["A"], "conditional")
                    THEN ClauseText(rules["A"],
                             IF DefaultedTestHolds(rules["A"], arg_row)
                             THEN "then" ELSE "else", arg_row)
                    ELSE <<>>)

\* C9 witness: a conditional without operator returned the value of its else
\* source, and rule B its own value
MissingOperatorTakesElse ==
    /\ op = "process_row"
    /\ ~raised
    /\ DOMAIN rules = {"A", "B"}
    /\ rules["A"] = ConditionalOn([source |-> "x", value |-> StrV(<<"a">>)])
    /\ generated_data["A"] = StrV(<<"c">>)
    /\ generated_data["B"] = StrV(<<"b">>)

-----------------------------------------------------------------------------
(* Self-reference, repeated sources and the shape of the returned mapping  *)

\* the sources a rule definition names, one entry per mention
DeclaredSourceList(rule) ==
    IF "type" \notin DOMAIN rule THEN <<>>
    ELSE IF rule.type \in {"prioritized_list", "combine"}
    THEN (IF "sources" \in DOMAIN rule THEN rule.sources ELSE <<>>)
    ELSE IF rule.type = "conditional"
    THEN (IF "if" \in DOMAIN rule /\ "source" \in DOMAIN rule["if"]
          THEN <<rule["if"].source>> ELSE <<>>)
         \o (IF "then" \in DOMAIN rule /\ "source" \in DOMAIN rule["then"]
             THEN <<rule["then"].source>> ELSE <<>>)
         \o (IF "else" \in DOMAIN rule /\ "source" \in DOMAIN rule["else"]
             THEN <<rule["else"].source>> ELSE <<>>)
    ELSE <<>>

\* how often rule T names S as a source
Mentions(T, S) ==
    Cardinality({i \in 1..Len(DeclaredSourceList(rules[T])) :
                    DeclaredSourceList(rules[T])[i] = S})

ReadsItself(T) == Mentions(T, T) > 0

\* C27: a rule that names itself among its sources is treated as a cycle: no
\* execution order is produced, the rule is reported as involved, and
\* process_row returns the empty mapping for every row.
SelfReferenceIsCycle ==
    (op # "none" /\ \E T \in DOMAIN rules : ReadsItself(T)) =>
        /\ sorted_rules.isNone
        /\ \A T \in DOMAIN rules : ReadsItself(T) => T \in cycle_nodes
        /\ op = "process_row" => (generated_data = EmptyMap /\ ~raised)

\* C27 witness: A is a conditional with itself as if-source and then-source
\* and no other rule as source, B is a plain rule, and process_row was called
\* with a row that holds x
SelfReadingConditionalCalled ==
    /\ op = "process_row"
    /\ DOMAIN rules = {"A", "B"}
    /\ rules["A"].type = "conditional"
    /\ rules["A"]["then"].source = "A"
    /\ ReadsFrom("A") = {"A"}
    /\ ReadsFrom("B") = {}
    /\ rules["B"].type = "prioritized_list"
    /\ "x" \in DOMAIN arg_row
    /\ cycle_nodes = {"A"}
    /\ generated_data = EmptyMap

\* C28: naming the same rule more than once as a source of another rule never
\* causes a cycle report in an acyclic rule set, and the dependent rule
\* appears exactly once in the execution order, after the rule it reads.
RepeatedSourceIsNoCycle ==
    (op # "none" /\ ~HasCycle) =>
        \A T \in DOMAIN rules : \A S \in DOMAIN rules :
            Mentions(T, S) > 1 =>
                /\ ~sorted_rules.isNone
                /\ cycle_nodes = {}
                /\ Cardinality({i \in 1..Len(sorted_rules.list) :
                                   sorted_rules.list[i] = T}) = 1
                /\ Position(sorted_rules.list, S) < Position(sorted_rules.list, T)

\* C28 witness: C is a conditional with A as if-source and as then-source, B
\* is a combine rule that lists A twice, A reads C's else-source x only, and
\* the order is A, B, C
RepeatedSourcesOrdered ==
    /\ op = "init"
    /\ DOMAIN rules = {"A", "B", "C"}
    /\ ReadsFrom("A") = {}
    /\ rules["C"].type = "conditional"
    /\ rules["C"]["if"].source = "A"
    /\ rules["C"]["then"].source = "A"
    /\ rules["B"].type = "combine"
    /\ Mentions("B", "A") = 2
    /\ sorted_rules.list = <<"A", "B", "C">>

\* C29: for an acyclic, non-empty rule set the mapping process_row returns
\* has exactly the rule names as keys and every value is a string; for an
\* empty rule set it is the empty mapping, as it is for a cyclic rule set.
ReturnedKeysAreRuleNames ==
    (op = "process_row" /\ ~raised) =>
        /\ (DOMAIN rules # {} /\ ~HasCycle) =>
               /\ DOMAIN generated_data = DOMAIN rules
               /\ \A f \in DOMAIN generated_data : generated_data[f].k = "str"
        /\ (DOMAIN rules = {} \/ HasCycle) => generated_data = EmptyMap

\* C29 witness: two rules that both come out empty on a row with the raw
\* fields x and A: the mapping has the keys A and B, and no key x
ReturnedMappingWithEmptyValues ==
    /\ op = "process_row"
    /\ DOMAIN rules = {"A", "B"}
    /\ ~HasCycle
    /\ DOMAIN arg_row = {"x", "A"}
    /\ DOMAIN generated_data = {"A", "B"}
    /\ generated_data["A"] = StrV(<<>>)

\* the literals of the comparison value that are not empty
NonEmptyLiterals(value) == Literals(value) \ {<<>>}

ContainsRuleCalled ==
    /\ op = "process_row"
    /\ "A" \in DOMAIN rules
    /\ IsCompleteConditional(rules["A"])
    /\ rules["A"]["if"].operator = "contains"

\* C30: 'contains' holds only when a non-empty literal of the comparison
\* value is a substring of the trimmed source value: when none is, the rule
\* returns the value of else.source, also for an empty comparison value and
\* for an empty literal next to a semicolon.
ContainsNeedsNonEmptyLiteral ==
    (ContainsRuleCalled /\ ~raised) =>
        LET rule == rules["A"]
            text == StringForm(arg_row, rule["if"].source)
        IN  (~\E l \in NonEmptyLiterals(rule["if"].value.s) : IsSubstring(l, text))
                => generated_data["A"] = StrV(TextOf(arg_row, rule["else"].source))

-----------------------------------------------------------------------------
(* Cells of a sheet, as pandas hands them over                             *)

NumCell(n) == [k |-> "num", s |-> <<>>, n |-> n]
TextCell(s) == [k |-> "str", s |-> s, n |-> 0]
BlankCell == [k |-> "nan", s |-> <<>>, n |-> 0]

DigitChars == <<"0", "1", "2", "3", "4", "5", "6", "7", "8", "9">>
IsDigit(c) == \E d \in 1..Len(DigitChars) : DigitChars[d] = c
DigitOf(c) == (CHOOSE d \in 1..Len(DigitChars) : DigitChars[d] = c) - 1

AllDigits(s) == Len(s) > 0 /\ \A i \in 1..Len(s) : IsDigit(s[i])

RECURSIVE DigitsValue(_)
DigitsValue(s) ==
    IF s = <<>> THEN 0
    ELSE DigitsValue(SubSeq(s, 1, Len(s) - 1)) * 10 + DigitOf(s[Len(s)])

\* the position of the decimal point in s, 0 when there is none
PointAt(s) ==
    IF \E i \in 1..Len(s) : s[i] = "." THEN CHOOSE i \in 1..Len(s) : s[i] = "." ELSE 0

\* a text as a number in tenths: digits, or digits "." digit; [ok, n]
ParseTenths(s) ==
    LET p == PointAt(s)
    IN  IF AllDigits(s) THEN [ok |-> TRUE, n |-> DigitsValue(s) * 10]
        ELSE IF /\ p > 1 /\ p = Len(s) - 1
                /\ AllDigits(SubSeq(s, 1, p - 1)) /\ IsDigit(s[Len(s)])
             THEN [ok |-> TRUE, n |-> DigitsValue(SubSeq(s, 1, p - 1)) * 10 + DigitOf(s[Len(s)])]
             ELSE [ok |-> FALSE, n |-> 0]

\* pd.to_numeric(cell, errors='coerce'): [ok, n], not ok standing for NaN
ToNumeric(cell) ==
    CASE cell.k = "num" -> [ok |-> TRUE, n |-> cell.n]
      [] cell.k = "str" -> ParseTenths(cell.s)
      [] OTHER -> [ok |-> FALSE, n |-> 0]

\* int(x) for an element of an object column raises for a text that is not
\* an integer literal
IntRaises(cell) == cell.k = "str" /\ ~AllDigits(cell.s)

\* x == int(x): a number equal to its truncation; a text never equals an int
EqualsOwnInt(cell) == cell.k = "num" /\ cell.n = (cell.n \div 10) * 10

\* x in [1, 4, 5]
IsValidPartType(cell) == cell.k = "num" /\ cell.n \in {10, 40, 50}

RECURSIVE NatDigits(_)
NatDigits(n) ==
    IF n < 10 THEN <<DigitChars[n + 1]>>
    ELSE NatDigits(n \div 10) \o <<DigitChars[(n % 10) + 1]>>

\* f"{m:g}" for a number given in tenths
FormatG(n) ==
    IF n % 10 = 0 THEN NatDigits(n \div 10)
    ELSE NatDigits(n \div 10) \o <<".">> \o <<DigitChars[(n % 10) + 1]>>

-----------------------------------------------------------------------------
(* ConfigManager.get_column_indices                                        *)

ColumnLetters ==
    <<"A", "B", "C", "D", "E", "F", "G", "H", "I", "J", "K", "L", "M", "N", "O", "P">>

IsColumnLetter(l) == \E i \in 1..Len(ColumnLetters) : ColumnLetters[i] = l

\* openpyxl's column_index_from_string: "A" -> 1, "B" -> 2, ...
ColumnIndexFromString(l) == CHOOSE i \in 1..Len(ColumnLetters) : ColumnLetters[i] = l

\* names with an empty or invalid letter are left out of the index map
GetColumnIndices(mapping) ==
    [name \in {m \in DOMAIN mapping : mapping[m] # "" /\ IsColumnLetter(mapping[m])} |->
        ColumnIndexFromString(mapping[name]) - 1]

-----------------------------------------------------------------------------
(* Stueckliste._load_data                                                  *)

\* the cell of a row in column c (0-based); columns the model leaves out
\* are blank
CellAt(row, c) == IF c \in DOMAIN row THEN row[c] ELSE BlankCell

\* df_items.dropna(how='all')
DropNaAll(rows) == SelectSeq(rows, LAMBDA row : \E c \in DOMAIN row : row[c].k # "nan")

Max(a, b) == IF a >= b THEN a ELSE b

\* line 100: keep the rows whose column 0 converts to a number
FilterNumeric(rows) == SelectSeq(rows, LAMBDA row : ToNumeric(CellAt(row, 0)).ok)

\* line 101: .astype(int) on column 0 of the rows kept so far
AstypeIntRaises(rows) == \E i \in 1..Len(rows) : IntRaises(CellAt(rows[i], 0))

FilterWholeSkippingFirst(rows) ==
    IF SelectSeq(rows, LAMBDA row : EqualsOwnInt(CellAt(row, 0))) = <<>> THEN <<>>
    ELSE Tail(SelectSeq(rows, LAMBDA row : EqualsOwnInt(CellAt(row, 0))))

\* line 101: keep the rows whose column 0 equals its own int
FilterWhole(rows) == SelectSeq(rows, LAMBDA row : EqualsOwnInt(CellAt(row, 0)))

\* line 102: keep the rows whose column 12 is one of 1, 4, 5
FilterPartType(rows) == SelectSeq(rows, LAMBDA row : IsValidPartType(CellAt(row, 12)))

\* fillna(''): a blank becomes the empty text
FillNa(cell) == IF cell.k = "nan" THEN TextCell(<<>>) ELSE cell

\* pos_dict[name] = row.get(col_idx, '') for every mapped name, then fillna
PosDict(row, col_indices, ncols) ==
    [name \in DOMAIN col_indices |->
        IF col_indices[name] < ncols THEN FillNa(CellAt(row, col_indices[name]))
        ELSE TextCell(<<>>)]

\* format_menge raises for a Menge_val that is a text other than ''
FormatMengeRaises(pos) == pos["Menge_val"].k = "str" /\ pos["Menge_val"].s # <<>>

\* str(x) of a cell value: a number of a float column prints with its fraction
CellStr(cell) ==
    CASE cell.k = "str" -> cell.s
      [] cell.k = "num" -> IF cell.n % 10 = 0 THEN NatDigits(cell.n \div 10) \o <<".", "0">>
                           ELSE FormatG(cell.n)
      [] OTHER -> <<"n", "a", "n">>

\* bool(x) of a cell value
CellTruthy(cell) ==
    CASE cell.k = "str" -> cell.s # <<>>
      [] cell.k = "num" -> cell.n # 0
      [] OTHER -> TRUE

\* str(row.get(name, ''))
PosStr(pos, name) == IF name \in DOMAIN pos THEN CellStr(pos[name]) ELSE <<>>

\* str(row.get(name) or ''): a missing or falsy value reads as ''
PosStrOrEmpty(pos, name) ==
    IF name \in DOMAIN pos /\ CellTruthy(pos[name]) THEN CellStr(pos[name]) ELSE <<>>

\* s.replace(' ', '')
RemoveSpaces(s) == SelectSeq(s, LAMBDA c : c # SP)

\* s.strip(' /')
RECURSIVE StripSpaceSlash(_)
StripSpaceSlash(s) ==
    IF s # <<>> /\ Head(s) \in {SP, "/"} THEN StripSpaceSlash(Tail(s))
    ELSE IF s # <<>> /\ s[Len(s)] \in {SP, "/"}
         THEN StripSpaceSlash(SubSeq(s, 1, Len(s) - 1))
         ELSE s

\* format_benennung_multiline
FormatBenennungMultiline(pos) ==
    LET b == Strip(PosStr(pos, "Benennung"))
        z == Strip(PosStr(pos, "Zusatzbenennung"))
    IN  IF z # <<>> THEN b \o <<NL>> \o z ELSE b

\* FormatMenge that keeps every unit
FormatMengeKeepingUnit(pos) ==
    IF pos["Menge_val"].k = "num"
    THEN Strip(FormatG(pos["Menge_val"].n) \o <<SP>> \o PosStr(pos, "Einheit"))
    ELSE <<>>

\* format_menge: the quantity in the shortest form and the unit, '' for ''
FormatMenge(pos) ==
    LET e_raw == PosStr(pos, "Einheit")
        e == IF e_raw \in {<<"1">>, <<"1", ".", "0">>} THEN <<"S", "t", "k">> ELSE e_raw
    IN  IF pos["Menge_val"].k = "num"
        THEN Strip(FormatG(pos["Menge_val"].n) \o <<SP>> \o e)
        ELSE <<>>

\* get_bestellnummer
GetBestellnummer(pos) ==
    LET clean_teilenr == Strip(Split(PosStr(pos, "Teilenummer"), "(")[1])
    IN  IF "AFPS" \in DOMAIN pos /\ CellTruthy(pos["AFPS"]) THEN CellStr(pos["AFPS"])
        ELSE IF clean_teilenr # <<>> THEN clean_teilenr
        ELSE PosStrOrEmpty(pos, "Hersteller_Nr")

\* get_information
GetInformation(pos) ==
    LET has_internal_number ==
            \/ Strip(PosStrOrEmpty(pos, "AFPS")) # <<>>
            \/ Strip(PosStrOrEmpty(pos, "Teilenummer")) # <<>>
        n == Strip(PosStr(pos, "Norm") \o <<SP>> \o PosStr(pos, "Abmessung"))
        h == StripSpaceSlash(PosStr(pos, "Hersteller") \o <<SP, "/", SP>>
                             \o PosStr(pos, "Hersteller_Nr"))
    IN  IF has_internal_number THEN <<>> ELSE Strip(n \o <<NL>> \o h)

\* the fields the business logic of lines 147-150 adds to a row
DerivedFields == {"Benennung_Formatiert", "Menge", "Bestellnummer_Kunde", "Information"}

\* the Position stored for a row: the mapped columns and the derived fields
FinalPosition(pos) ==
    [name \in DOMAIN pos \cup DerivedFields |->
        CASE name = "Benennung_Formatiert" -> TextCell(FormatBenennungMultiline(pos))
          [] name = "Menge" -> TextCell(FormatMenge(pos))
          [] name = "Bestellnummer_Kunde" -> TextCell(GetBestellnummer(pos))
          [] name = "Information" -> TextCell(GetInformation(pos))
          [] OTHER -> pos[name]]

CleanZeichnungsnummerKeepingSpaces(value) ==
    StrV(Strip(Split(IF Truthy(value) THEN PyStr(value) ELSE <<>>, "(")[1]))

\* lines 76-77: str(value or '').split('(')[0].strip().replace(' ', '')
CleanZeichnungsnummer(value) ==
    StrV(RemoveSpaces(Strip(Split(IF Truthy(value) THEN PyStr(value) ELSE <<>>, "(")[1])))

\* the frame after lines 100-102
RowFilter(rows) == FilterPartType(FilterWhole(FilterNumeric(rows)))

\* lines 110-115: one pos_dict per row of the frame, in the frame's order
ProcessedPositions(kept, col_indices, ncols) ==
    [i \in 1..Len(kept) |-> PosDict(kept[i], col_indices, ncols)]

\* what _load_data leaves behind: [is_loaded, positionen, exit, df_items]
LoadFailed(exit, frame) ==
    [is_loaded |-> FALSE, positionen |-> <<>>, exit |-> exit, df_items |-> frame]

\* the header is read once the sheet 'Import' was found
HeaderRead(wb) == IF wb.has_import THEN CleanZeichnungsnummer(wb.znr) ELSE NoneV

LoadData(mapping, wb) ==
    LET col_indices == GetColumnIndices(mapping)
        frame == DropNaAll(wb.rows)
        numeric == FilterNumeric(frame)
        kept == RowFilter(frame)
        processed == ProcessedPositions(kept, col_indices, wb.ncols)
    IN  IF ~wb.has_import THEN LoadFailed("no_import_sheet", <<>>)
        ELSE IF ~({"POS", "Teileart"} \subseteq DOMAIN col_indices)
        THEN LoadFailed("KeyError", <<>>)
        ELSE IF wb.ncols <= Max(col_indices["POS"], col_indices["Teileart"])
        THEN LoadFailed("too_few_columns", <<>>)
        ELSE IF AstypeIntRaises(numeric) THEN LoadFailed("astype_int", <<>>)
        ELSE IF wb.ncols <= 12 THEN LoadFailed("IndexError", <<>>)
        ELSE IF processed = <<>>
        THEN [is_loaded |-> TRUE, positionen |-> <<>>, exit |-> "no_positions",
              df_items |-> kept]
        ELSE IF "Menge_val" \notin DOMAIN col_indices THEN LoadFailed("KeyError", kept)
        ELSE IF \E i \in 1..Len(processed) : FormatMengeRaises(processed[i])
        THEN LoadFailed("format_menge", kept)
        ELSE [is_loaded |-> TRUE,
              positionen |-> [i \in 1..Len(processed) |-> FinalPosition(processed[i])],
              exit |-> "loaded", df_items |-> kept]

-----------------------------------------------------------------------------
(* One file loaded under one column mapping                                *)

MaxRows == 2

\* column A: 1, 2.5, the texts "3", "3.5" and "x", and a blank
PosCells ==
    {NumCell(10), NumCell(25), TextCell(<<"3">>), TextCell(<<"3", ".", "5">>),
     TextCell(<<"x">>), BlankCell}

\* column B: 2.5, the text "x", and a blank
MengeCells == {NumCell(25), TextCell(<<"x">>), BlankCell}

\* column M: part types 1 (kept) and 2 (filtered out)
TypeCells == {NumCell(10), NumCell(20)}

\* the rows of a sheet that is ncols columns wide; a row may be all blank
SheetRows(ncols) ==
    IF ncols > 12
    THEN {[c \in {0, 1, 12} |-> IF c = 0 THEN a ELSE IF c = 1 THEN b ELSE t] :
             a \in PosCells, b \in MengeCells, t \in TypeCells}
         \cup {[c \in {0, 1, 12} |-> BlankCell]}
    ELSE {[c \in {0, 1} |-> IF c = 0 THEN a ELSE b] : a \in PosCells, b \in MengeCells}

RowLists(ncols) ==
    UNION {[1..n -> SheetRows(ncols)] : n \in 1..MaxRows}

\* files without the sheet 'Import', and sheets 2 or 13 columns wide
Workbooks ==
    {[has_import |-> FALSE, znr |-> NoneV, ncols |-> 0, rows |-> <<>>]}
    \cup {[has_import |-> TRUE, znr |-> StrV(<<"A">>), ncols |-> w, rows |-> r] :
             w \in {13}, r \in RowLists(13)}
    \cup {[has_import |-> TRUE, znr |-> StrV(<<"A">>), ncols |-> w, rows |-> r] :
             w \in {2}, r \in RowLists(2)}

\* the default mapping of the three columns; POS mapped to B or unmapped;
\* Teileart mapped to C, a column the sheets leave blank; Menge_val unmapped
ColumnMappings ==
    {[POS |-> p, Menge_val |-> "B", Teileart |-> "M"] : p \in {"A", "B", ""}}
    \cup {[POS |-> "A", Menge_val |-> "B", Teileart |-> "C"],
          [POS |-> "A", Menge_val |-> "", Teileart |-> "M"]}

\* a Stueckliste about to load wb under the mapping m
InitLoad ==
    \E m \in ColumnMappings, wb \in Workbooks :
        /\ rules = <<>>
        /\ sorted_rules = NoOrder
        /\ cycle_nodes = {}
        /\ sorted_order = <<>>
        /\ in_degree = <<>>
        /\ reached_zero = {}
        /\ row_data = EmptyMap
        /\ arg_row = EmptyMap
        /\ local_row_data = EmptyMap
        /\ generated_data = EmptyMap
        /\ raised = FALSE
        /\ column_mapping = m
        /\ workbook = wb
        /\ is_loaded = FALSE
        /\ positionen = <<>>
        /\ load_exit = "none"
        /\ df_items = <<>>
        /\ zeichnungsnummer = NoneV
        /\ NoProcessor
        /\ NoConfig
        /\ op = "file"

\* Stueckliste._load_data()
Load ==
    /\ op = "file"
    /\ LET res == LoadData(column_mapping, workbook)
       IN  /\ is_loaded' = res.is_loaded
           /\ positionen' = res.positionen
           /\ load_exit' = res.exit
           /\ df_items' = res.df_items
    /\ zeichnungsnummer' = HeaderRead(workbook)
    /\ op' = "load"
    /\ UNCHANGED <<column_mapping, workbook>>
    /\ UNCHANGED runVars
    /\ UNCHANGED <<config_file, config, written>>
    /\ UNCHANGED <<rules, sorted_rules, cycle_nodes, sorted_order, in_degree,
                   reached_zero, row_data, arg_row, local_row_data, generated_data,
                   raised>>

NextLoad == Load

SpecLoad == InitLoad /\ [][NextLoad]_vars

\* the cell parses as a number equal to its own integer truncation
ParsesWhole(cell) == ToNumeric(cell).ok /\ ToNumeric(cell).n % 10 = 0

\* C10: after a successful load every retained Position has a POS value, the
\* value of the column the mapping assigns to POS, that parses as a number
\* equal to its integer truncation; a row whose POS value is fractional or
\* not a number is dropped and never makes the load fail.
RetainedPosIsWholeNumber ==
    op = "load" =>
        /\ is_loaded => \A i \in 1..Len(positionen) : ParsesWhole(positionen[i]["POS"])
        /\ load_exit # "astype_int"

\* the column the mapping of the loaded file assigns to a logical name
MappedColumn(name) == GetColumnIndices(column_mapping)[name]

\* C11: a row is retained only if its value in the column the mapping assigns
\* to Teileart is one of 1, 4, 5; rows with another or no value are dropped.
RetainedTeileartIsAllowed ==
    (op = "load" /\ is_loaded) =>
        \A i \in 1..Len(df_items) :
            IsValidPartType(CellAt(df_items[i], MappedColumn("Teileart")))

\* C12: the loader's row filter is idempotent: applied to the frame it
\* produced it raises nothing and returns the same rows in the same order.
RowFilterIsIdempotent ==
    op = "load" =>
        /\ ~AstypeIntRaises(FilterNumeric(df_items))
        /\ RowFilter(df_items) = df_items

\* C12 witness: of two rows one was filtered out, and filtering the remaining
\* frame again keeps its row
FilteredFrameRefiltered ==
    /\ op = "load"
    /\ Len(workbook.rows) = 2
    /\ Len(df_items) = 1
    /\ df_items[1] = workbook.rows[2]
    /\ RowFilter(df_items) = df_items

\* a data row passes both filters as the mapping names their columns
PassesBothFilters(row) ==
    /\ ParsesWhole(CellAt(row, MappedColumn("POS")))
    /\ IsValidPartType(CellAt(row, MappedColumn("Teileart")))

\* the Position the loader makes of a data row
PositionOf(row) ==
    FinalPosition(PosDict(row, GetColumnIndices(column_mapping), workbook.ncols))

\* C13: the Positions of a loaded file are a subsequence of its data rows:
\* each comes from a row passing both filters, in the rows' order, no row twice.
PositionsAreSubsequenceOfRows ==
    (op = "load" /\ is_loaded) =>
        \E f \in [1..Len(positionen) -> 1..Len(workbook.rows)] :
            /\ \A i, j \in 1..Len(positionen) : i < j => f[i] < f[j]
            /\ \A i \in 1..Len(positionen) :
                  /\ PassesBothFilters(workbook.rows[f[i]])
                  /\ positionen[i] = PositionOf(workbook.rows[f[i]])

\* C14: every name mapped to a valid column is a key of every Position of a
\* loaded file, holding the row's value at that column, or '' for a blank cell
\* or a column the sheet does not have; a mapping that leaves a name unmapped
\* does not make the load fail.
MappedNamesAreProjected ==
    op = "load" =>
        /\ is_loaded =>
              \A i \in 1..Len(positionen) :
                  \A name \in DOMAIN GetColumnIndices(column_mapping) :
                      /\ name \in DOMAIN positionen[i]
                      /\ positionen[i][name] =
                            IF /\ MappedColumn(name) < workbook.ncols
                               /\ CellAt(df_items[i], MappedColumn(name)).k # "nan"
                            THEN CellAt(df_items[i], MappedColumn(name))
                            ELSE TextCell(<<>>)
        /\ (\E name \in DOMAIN column_mapping : column_mapping[name] = "") =>
              load_exit # "KeyError"

-----------------------------------------------------------------------------
(* File names: sorted(os.listdir(...)) and the test of line 203            *)

\* the characters of the file names, in the order of their code points
CodeOrder ==
    <<".", "B", "L", "M", "S", "X", "a", "b", "c", "l", "m", "s", "t", "x", "~">>

Ord(c) == CHOOSE i \in 1..Len(CodeOrder) : CodeOrder[i] = c

\* str.lower()
Lower(s) ==
    LET UpperCase == <<"B", "L", "M", "S", "X">>
        LowerCase == <<"b", "l", "m", "s", "x">>
    IN  [i \in 1..Len(s) |->
            IF \E j \in 1..Len(UpperCase) : UpperCase[j] = s[i]
            THEN LowerCase[CHOOSE j \in 1..Len(UpperCase) : UpperCase[j] = s[i]]
            ELSE s[i]]

\* a < b for two strings
RECURSIVE StrLess(_, _)
StrLess(a, b) ==
    IF b = <<>> THEN FALSE
    ELSE IF a = <<>> THEN TRUE
    ELSE IF Head(a) = Head(b) THEN StrLess(Tail(a), Tail(b))
    ELSE Ord(Head(a)) < Ord(Head(b))

\* sorted(names)
RECURSIVE Sorted(_)
Sorted(S) ==
    IF S = {} THEN <<>>
    ELSE LET least == CHOOSE x \in S : \A y \in S \ {x} : StrLess(x, y)
         IN  <<least>> \o Sorted(S \ {least})

EndsWith(s, suffix) ==
    Len(s) >= Len(suffix) /\ SubSeq(s, Len(s) - Len(suffix) + 1, Len(s)) = suffix

StartsWith(s, prefix) == Len(s) >= Len(prefix) /\ SubSeq(s, 1, Len(prefix)) = prefix

\* IsBomFileName without the test for a leading '~'
IsBomFileNameWithLockFiles(filename) ==
    \/ EndsWith(Lower(filename), <<".", "x", "l", "s", "m">>)
    \/ EndsWith(Lower(filename), <<".", "x", "l", "s", "x">>)

\* line 203
IsBomFileName(filename) ==
    /\ \/ EndsWith(Lower(filename), <<".", "x", "l", "s", "m">>)
       \/ EndsWith(Lower(filename), <<".", "x", "l", "s", "x">>)
    /\ ~StartsWith(filename, <<"~">>)

-----------------------------------------------------------------------------
(* BomProcessor                                                            *)

\* Stueckliste(filepath, config): the object _load_data leaves behind
NewStueckliste(mapping, wb) ==
    [zeichnungsnummer |-> HeaderRead(wb),
     is_loaded |-> LoadData(mapping, wb).is_loaded,
     positionen |-> LoadData(mapping, wb).positionen]

RegisterUnloaded(registry, filename, bom) ==
    IF Truthy(bom.zeichnungsnummer)
    THEN RowSet(registry, bom.zeichnungsnummer.s, filename)
    ELSE registry

RegisterFirstWins(registry, filename, bom) ==
    IF /\ bom.is_loaded /\ Truthy(bom.zeichnungsnummer)
       /\ bom.zeichnungsnummer.s \notin DOMAIN registry
    THEN RowSet(registry, bom.zeichnungsnummer.s, filename)
    ELSE registry

\* lines 207-208: the object is registered under its drawing number
Register(registry, filename, bom) ==
    IF bom.is_loaded /\ Truthy(bom.zeichnungsnummer)
    THEN RowSet(registry, bom.zeichnungsnummer.s, filename)
    ELSE registry

\* a reference to the Stueckliste object made of the file
RefCell(filename) == [k |-> "ref", s |-> filename, n |-> 0]

CleanTeilenummerKeepingSuffix(teilenummer_raw) ==
    RemoveSpaces(Strip(CellStr(teilenummer_raw)))

\* lines 221-223
CleanTeilenummer(teilenummer_raw) ==
    RemoveSpaces(Strip(Split(Strip(CellStr(teilenummer_raw)), "(")[1]))

LinkPositionNormalising(position, registry) ==
    IF "Teilenummer" \notin DOMAIN position \/ ~CellTruthy(position["Teilenummer"])
    THEN position
    ELSE LET final_teilenummer == CleanTeilenummer(position["Teilenummer"])
         IN  IF final_teilenummer # <<>> /\ final_teilenummer \in DOMAIN registry
             THEN RowSet(RowSet(position, "Teilenummer", TextCell(final_teilenummer)),
                         "sub_assembly", RefCell(registry[final_teilenummer]))
             ELSE position

\* lines 216-230 for one position
LinkPosition(position, registry) ==
    IF "Teilenummer" \notin DOMAIN position \/ ~CellTruthy(position["Teilenummer"])
    THEN position
    ELSE LET final_teilenummer == CleanTeilenummer(position["Teilenummer"])
         IN  IF final_teilenummer # <<>> /\ final_teilenummer \in DOMAIN registry
             THEN RowSet(position, "sub_assembly", RefCell(registry[final_teilenummer]))
             ELSE position

\* the objects self.boms.values() yields
Registered(registry) == {registry[key] : key \in DOMAIN registry}

\* LinkAll as if each object were linked when its file is loaded: only the
\* objects of files earlier in the order are found
LinkAllWhileLoading(objects, registry) ==
    [f \in DOMAIN objects |->
        IF f \in Registered(registry)
        THEN [objects[f] EXCEPT !.positionen =
                 [i \in 1..Len(objects[f].positionen) |->
                     LinkPosition(objects[f].positionen[i],
                         [key \in {k \in DOMAIN registry : StrLess(registry[k], f)} |->
                             registry[key]])]]
        ELSE objects[f]]

\* _link_assemblies: every position of every registered object
LinkAll(objects, registry) ==
    [f \in DOMAIN objects |->
        IF f \in Registered(registry)
        THEN [objects[f] EXCEPT !.positionen =
                 [i \in 1..Len(objects[f].positionen) |->
                     LinkPosition(objects[f].positionen[i], registry)]]
        ELSE objects[f]]

-----------------------------------------------------------------------------
(* A folder of files processed by BomProcessor.run                         *)

MaxFiles == 4

\* the file names a folder may hold; the first MaxFiles of them are used
FileNameMenu ==
    <<<<"b", ".", "x", "l", "s", "x">>,
      <<"B", ".", "X", "L", "S", "M">>,
      <<"~", "a", ".", "x", "l", "s", "x">>,
      <<"a", ".", "t", "x", "t">>,
      <<"c", ".", "x", "l", "s">>>>

\* a data row 1 | 2.5 | ... | part number | ... | part type
RunRow(teilenummer, teileart) ==
    [c \in {0, 1, 9, 12} |->
        CASE c = 0 -> NumCell(10)
          [] c = 1 -> NumCell(25)
          [] c = 9 -> teilenummer
          [] OTHER -> NumCell(teileart)]

RunSheet(znr, rows) == [has_import |-> TRUE, znr |-> znr, ncols |-> 13, rows |-> rows]

\* assembly A, which refers to B
AssemblyA ==
    RunSheet(StrV(<<"A">>),
        <<RunRow(TextCell(<<"B", SP, "(", "x", ")">>), 10),
          RunRow(BlankCell, 40),
          RunRow(TextCell(<<SP, "B">>), 50),
          RunRow(TextCell(<<"C">>), 10)>>)

\* assembly B, which refers to A and to itself
AssemblyB ==
    RunSheet(StrV(<<"B">>),
        <<RunRow(TextCell(<<"A">>), 10), RunRow(TextCell(<<"B">>), 20),
          RunRow(TextCell(<<"B">>), 10)>>)

\* the workbooks a file may be: assemblies A, B and AB that refer to each
\* other, an assembly P with the part number "07.123-4 (Rev.B)" and the
\* assembly 07.123-4 made of two plain parts, files that fail to load, and
\* files without a usable drawing number
RunWorkbooks ==
    {AssemblyA,
     AssemblyB,
     RunSheet(StrV(<<"P">>),
         <<RunRow(TextCell(<<"0", "7", ".", "1", "2", "3", "-", "4", SP,
                             "(", "R", "e", "v", ".", "B", ")">>), 10),
           RunRow(TextCell(<<"C">>), 10)>>),
     RunSheet(StrV(<<"0", "7", ".", "1", "2", "3", "-", "4">>),
         <<RunRow(TextCell(<<"C">>), 10), RunRow(BlankCell, 10)>>),
     RunSheet(StrV(<<SP, "B", SP, "(", "r", ")">>),
         <<RunRow(TextCell(<<"A", NL, "B">>), 10), RunRow(TextCell(<<"A", SP, "B">>), 10)>>),
     RunSheet(StrV(<<"A", SP, "B">>), <<RunRow(TextCell(<<"(", "A", ")">>), 10)>>),
     RunSheet(StrV(<<"(", "A", ")">>), <<RunRow(TextCell(<<"A">>), 10)>>),
     RunSheet(NoneV, <<RunRow(TextCell(<<"B">>), 10)>>),
     RunSheet(StrV(<<"A">>),
         <<[c \in {0, 1, 9, 12} |->
               IF c = 0 THEN TextCell(<<"3", ".", "5">>) ELSE RunRow(BlankCell, 10)[c]]>>),
     RunSheet(StrV(<<"B">>), <<RunRow(TextCell(<<"A">>), 20)>>),
     [has_import |-> FALSE, znr |-> StrV(<<"A">>), ncols |-> 0, rows |-> <<>>]}

\* the default mapping of the columns the run reads
RunMapping == [POS |-> "A", Menge_val |-> "B", Teilenummer |-> "J", Teileart |-> "M"]

\* the generation_rules of the default configuration
DefaultRules ==
    [Benennung_Formatiert |->
        [type |-> "combine", sources |-> <<"Benennung", "Zusatzbenennung">>,
         separator |-> <<BSL, "n">>],
     Bestellnummer_Kunde |->
        [type |-> "prioritized_list", sources |-> <<"AFPS", "Teilenummer", "Hersteller_Nr">>]]

\* BomProcessor(folder_path, config_manager) for a folder of files: any of the
\* workbooks under the first two names, a well-formed workbook under a name
\* that starts with '~' or does not end like a workbook
InitRun ==
    \E names \in SUBSET {FileNameMenu[i] : i \in 1..MaxFiles} :
        \E files \in {fs \in [names -> RunWorkbooks] :
                          \A f \in names \ {FileNameMenu[1], FileNameMenu[2]} :
                              fs[f] \in {AssemblyA, AssemblyB}} :
            /\ rules = <<>>
            /\ sorted_rules = NoOrder
            /\ cycle_nodes = {}
            /\ sorted_order = <<>>
            /\ in_degree = <<>>
            /\ reached_zero = {}
            /\ row_data = EmptyMap
            /\ arg_row = EmptyMap
            /\ local_row_data = EmptyMap
            /\ generated_data = EmptyMap
            /\ raised = FALSE
            /\ column_mapping = RunMapping
            /\ workbook = [has_import |-> FALSE, znr |-> NoneV, ncols |-> 0, rows |-> <<>>]
            /\ is_loaded = FALSE
            /\ positionen = <<>>
            /\ load_exit = "none"
            /\ df_items = <<>>
            /\ zeichnungsnummer = NoneV
            /\ generation_rules = DefaultRules
            /\ folder = files
            /\ pending = <<>>
            /\ stuecklisten = EmptyMap
            /\ boms = EmptyMap
            /\ main_assembly = NONE
            /\ tree_widget = {}
            /\ recursion_error = FALSE
            /\ NoConfig
            /\ op = "processor"

idleVars == <<rules, sorted_rules, cycle_nodes, sorted_order, in_degree, reached_zero,
              row_data, arg_row, local_row_data, generated_data, raised,
              column_mapping, workbook, is_loaded, positionen, load_exit, df_items,
              zeichnungsnummer, generation_rules, folder, config_file, config, written>>

\* run() enters _load_all_boms: line 201 lists and sorts the folder
ListFolder ==
    /\ op = "processor"
    /\ pending' = Sorted(DOMAIN folder)
    /\ op' = "loading"
    /\ UNCHANGED <<stuecklisten, boms>>
    /\ UNCHANGED <<main_assembly, tree_widget, recursion_error>>
    /\ UNCHANGED idleVars

\* one pass of the loop of lines 201-209
LoadNextFile ==
    /\ op = "loading"
    /\ pending # <<>>
    /\ LET filename == Head(pending)
           bom == NewStueckliste(column_mapping, folder[filename])
       IN  IF IsBomFileName(filename)
           THEN /\ stuecklisten' = RowSet(stuecklisten, filename, bom)
                /\ boms' = Register(boms, filename, bom)
           ELSE UNCHANGED <<stuecklisten, boms>>
    /\ pending' = Tail(pending)
    /\ UNCHANGED op
    /\ UNCHANGED <<main_assembly, tree_widget, recursion_error>>
    /\ UNCHANGED idleVars

\* the loop is over: _link_assemblies, and run returns self.boms
LinkAssemblies ==
    /\ op = "loading"
    /\ pending = <<>>
    /\ stuecklisten' = LinkAll(stuecklisten, boms)
    /\ op' = "linked"
    /\ UNCHANGED <<pending, boms>>
    /\ UNCHANGED <<main_assembly, tree_widget, recursion_error>>
    /\ UNCHANGED idleVars

\* the depth of recursion at which Python raises RecursionError
RecursionLimit == 4

\* IsAssembly that marks no position
IsAssemblyNever(position) == FALSE

\* line 404: is_assembly = 'sub_assembly' in position
IsAssembly(position) == "sub_assembly" \in DOMAIN position

\* _add_children_recursively(parent_item, bom_obj) from position number pos
\* on: the items it creates, each with its place in the tree (the positions
\* from the root item down to it) and its data, and whether it ended in
\* RecursionError
RECURSIVE AddChildrenRecursively(_, _, _, _)
AddChildrenRecursively(objects, path, bom, pos) ==
    IF Len(path) >= RecursionLimit
    THEN [items |-> {}, raised |-> TRUE]
    ELSE IF pos > Len(objects[bom].positionen)
    THEN [items |-> {}, raised |-> FALSE]
    ELSE LET position == objects[bom].positionen[pos]
             child_item == [path |-> Append(path, [bom |-> bom, pos |-> pos]),
                            is_assembly |-> IsAssembly(position)]
             below == IF IsAssembly(position)
                      THEN AddChildrenRecursively(objects, child_item.path,
                               position["sub_assembly"].s, 1)
                      ELSE [items |-> {}, raised |-> FALSE]
         IN  IF below.raised
             THEN [items |-> {child_item} \cup below.items, raised |-> TRUE]
             ELSE LET later == AddChildrenRecursively(objects, path, bom, pos + 1)
                  IN  [items |-> {child_item} \cup below.items \cup later.items,
                       raised |-> later.raised]

\* MainWindow._on_assembly_selected(bom_znr): the tree is cleared and filled
\* from the registered object
PopulateTree(bom_znr) ==
    /\ op \in {"linked", "tree"}
    /\ bom_znr \in DOMAIN boms
    /\ LET walk == AddChildrenRecursively(stuecklisten, <<>>, boms[bom_znr], 1)
       IN  /\ tree_widget' = walk.items
           /\ recursion_error' = walk.raised
    /\ main_assembly' = boms[bom_znr]
    /\ op' = "tree"
    /\ UNCHANGED <<pending, stuecklisten, boms>>
    /\ UNCHANGED idleVars

NextRun ==
    \/ ListFolder
    \/ LoadNextFile
    \/ LinkAssemblies
    \/ \E bom_znr \in DOMAIN boms : PopulateTree(bom_znr)

SpecRun == InitRun /\ [][NextRun]_vars

Running == op \in {"loading", "linked"}

\* the files of the folder the loop has visited
Visited == {f \in DOMAIN folder : \A i \in 1..Len(pending) : pending[i] # f}

\* a visited file that loaded and has a drawing number
LoadedWithNumber(f) ==
    /\ f \in DOMAIN stuecklisten
    /\ stuecklisten[f].is_loaded
    /\ Truthy(stuecklisten[f].zeichnungsnummer)

\* C15: a file that fails to load is marked not loaded and is not in the
\* registry; every other file with a fitting name is still processed, and a good
\* file's number is registered whatever the other files did; when every file
\* failed the registry is empty.
FailedFileExcludesOnlyItself ==
    Running =>
        /\ DOMAIN stuecklisten = {f \in Visited : IsBomFileName(f)}
        /\ \A f \in DOMAIN stuecklisten :
              /\ ~folder[f].has_import => ~stuecklisten[f].is_loaded
              /\ ~stuecklisten[f].is_loaded => f \notin Registered(boms)
              /\ LoadedWithNumber(f) => stuecklisten[f].zeichnungsnummer.s \in DOMAIN boms
        /\ (\A f \in DOMAIN stuecklisten : ~stuecklisten[f].is_loaded) => boms = EmptyMap

\* C15 witness: the run ended with two files visited, the first of which raised
\* while loading and is not registered, while the second is
FailedFileBesideGoodFile ==
    /\ op = "linked"
    /\ \E f, g \in DOMAIN stuecklisten :
          /\ StrLess(f, g)
          /\ LoadData(column_mapping, folder[f]).exit = "astype_int"
          /\ ~stuecklisten[f].is_loaded
          /\ f \notin Registered(boms)
          /\ g \in Registered(boms)

\* C16: every key of the registry maps to an object that loaded and whose
\* drawing number is the key; the key is not empty, has no "(" and no space,
\* and neither starts nor ends with whitespace.
RegistryKeysAreCleanNumbers ==
    \A key \in DOMAIN boms :
        /\ boms[key] \in DOMAIN stuecklisten
        /\ stuecklisten[boms[key]].is_loaded
        /\ stuecklisten[boms[key]].zeichnungsnummer = StrV(key)
        /\ key # <<>>
        /\ \A i \in 1..Len(key) : key[i] \notin {"(", SP}
        /\ ~IsSpace(key[1]) /\ ~IsSpace(key[Len(key)])

\* C16 witness: files whose header cells read " B (r)" and "A B" are
\* registered as B and AB
RawNumbersRegisteredClean ==
    /\ DOMAIN boms = {<<"B">>, <<"A", "B">>}
    /\ folder[boms[<<"B">>]].znr = StrV(<<SP, "B", SP, "(", "r", ")">>)
    /\ folder[boms[<<"A", "B">>]].znr = StrV(<<"A", SP, "B">>)

\* the text before the first "(", the whole text when it has none
BeforeParen(text) ==
    IF \E i \in 1..Len(text) : text[i] = "("
    THEN SubSeq(text, 1, Least({i \in 1..Len(text) : text[i] = "("}) - 1)
    ELSE text

\* the part number of a Position as text, '' when it has none
PartNumberText(position) ==
    IF "Teilenummer" \in DOMAIN position /\ position["Teilenummer"].k = "str"
    THEN position["Teilenummer"].s ELSE <<>>

\* the Positions of the registered objects, as pairs <<file name, index>>
RegisteredPositions ==
    UNION {{<<f, i>> : i \in 1..Len(stuecklisten[f].positionen)} : f \in Registered(boms)}

\* the Position as the loader made it, before any link was attached
AsLoaded(f, i) == LoadData(column_mapping, folder[f]).positionen[i]

\* a Position is linked exactly when number is a key, and then to that object;
\* its other fields are as loaded
LinkedExactlyWhenKey(position, number, loaded) ==
    /\ "sub_assembly" \in DOMAIN position <=> (number # <<>> /\ number \in DOMAIN boms)
    /\ "sub_assembly" \in DOMAIN position => position["sub_assembly"] = RefCell(boms[number])
    /\ DOMAIN position \ {"sub_assembly"} = DOMAIN loaded
    /\ \A name \in DOMAIN loaded : position[name] = loaded[name]

LinkingOnlyAddsSubAssembly ==
    [][(op = "loading" /\ op' = "linked") =>
          /\ boms' = boms
          /\ DOMAIN stuecklisten' = DOMAIN stuecklisten
          /\ \A f \in DOMAIN stuecklisten :
                /\ stuecklisten'[f].zeichnungsnummer = stuecklisten[f].zeichnungsnummer
                /\ stuecklisten'[f].is_loaded = stuecklisten[f].is_loaded
                /\ Len(stuecklisten'[f].positionen) = Len(stuecklisten[f].positionen)
                /\ \A i \in 1..Len(stuecklisten[f].positionen) :
                      LET before == stuecklisten[f].positionen[i]
                          after == stuecklisten'[f].positionen[i]
                      IN  /\ DOMAIN after \ {"sub_assembly"} = DOMAIN before
                          /\ \A name \in DOMAIN before : after[name] = before[name]
                          /\ "sub_assembly" \in DOMAIN after =>
                                \E key \in DOMAIN boms :
                                    after["sub_assembly"] = RefCell(boms[key])]_vars

\* C18 witness: after linking, Positions of two different objects and two
\* Positions of one object refer to the same registered object
SubAssemblyShared ==
    /\ op = "linked"
    /\ \E p, q, r \in RegisteredPositions :
          /\ p[1] # q[1]
          /\ q[1] = r[1] /\ q[2] # r[2]
          /\ "sub_assembly" \in DOMAIN stuecklisten[p[1]].positionen[p[2]]
          /\ "sub_assembly" \in DOMAIN stuecklisten[q[1]].positionen[q[2]]
          /\ "sub_assembly" \in DOMAIN stuecklisten[r[1]].positionen[r[2]]
          /\ stuecklisten[p[1]].positionen[p[2]]["sub_assembly"]
                = stuecklisten[q[1]].positionen[q[2]]["sub_assembly"]
          /\ stuecklisten[q[1]].positionen[q[2]]["sub_assembly"]
                = stuecklisten[r[1]].positionen[r[2]]["sub_assembly"]

\* the visited files that loaded with the drawing number key
LoadedAs(key) ==
    {f \in DOMAIN stuecklisten : LoadedWithNumber(f) /\ stuecklisten[f].zeichnungsnummer.s = key}

\* C19: for files with the same drawing number the registry holds one object,
\* that of the file last in sorted name order among those that loaded, and
\* every link to the number refers to it.
LastLoadedFileHoldsKey ==
    Running =>
        /\ \A key \in DOMAIN boms :
              /\ boms[key] \in LoadedAs(key)
              /\ \A g \in LoadedAs(key) : g = boms[key] \/ StrLess(g, boms[key])
        /\ \A p \in RegisteredPositions :
              LET position == stuecklisten[p[1]].positionen[p[2]]
              IN  "sub_assembly" \in DOMAIN position =>
                      \E key \in DOMAIN boms :
                          /\ position["sub_assembly"] = RefCell(boms[key])
                          /\ \A g \in LoadedAs(key) : ~StrLess(boms[key], g)

\* C19 witness: two files loaded as B, the registry holds the one whose name
\* sorts last, and a Position of A is linked to it
DuplicateNumberLastWins ==
    /\ op = "linked"
    /\ \E f, g \in DOMAIN stuecklisten :
          /\ StrLess(f, g)
          /\ {f, g} \subseteq LoadedAs(<<"B">>)
          /\ folder[f] # folder[g]
          /\ boms[<<"B">>] = g
          /\ \E i \in 1..Len(stuecklisten[g].positionen) :
                /\ "sub_assembly" \in DOMAIN stuecklisten[g].positionen[i]
                /\ stuecklisten[g].positionen[i]["sub_assembly"] = RefCell(g)

\* a Position as the row the rule engine is given: the mapped fields, as text
AsRuleRow(position) ==
    [name \in DOMAIN position \ (DerivedFields \cup {"sub_assembly"}) |->
        StrV(CellStr(position[name]))]

\* the rule engine's result for a Position under the configured rules
EngineResult(position) ==
    ProcessRowResult(generation_rules, GetExecutionOrder(generation_rules).sorted_rules,
                     AsRuleRow(position), EmptyMap).generated

\* C20: after the run every Position of every registered object has, for each
\* configured rule, a field of the rule's name whose value is the rule engine's
\* result for the Position.
PositionsCarryRuleResults ==
    op = "linked" =>
        \A p \in RegisteredPositions :
            \A name \in DOMAIN generation_rules :
                LET position == stuecklisten[p[1]].positionen[p[2]]
                IN  /\ name \in DOMAIN position
                    /\ position[name] = TextCell(PyStr(EngineResult(position)[name]))

\* the name ends in .xlsm or .xlsx, in any mix of upper and lower case
HasWorkbookSuffix(name) ==
    /\ Len(name) >= 5
    /\ name[Len(name) - 4] = "."
    /\ name[Len(name) - 3] \in {"x", "X"}
    /\ name[Len(name) - 2] \in {"l", "L"}
    /\ name[Len(name) - 1] \in {"s", "S"}
    /\ name[Len(name)] \in {"m", "M", "x", "X"}

\* C21: the files are visited in sorted order of their names; exactly the
\* visited files whose name ends in .xlsm or .xlsx (in any case) and does not
\* start with '~' are loaded, and no other file has an entry in the registry.
FilesVisitedInNameOrder ==
    Running =>
        /\ \A i, j \in 1..Len(pending) : i < j => StrLess(pending[i], pending[j])
        /\ \A f \in Visited : \A i \in 1..Len(pending) : StrLess(f, pending[i])
        /\ DOMAIN stuecklisten = {f \in Visited : HasWorkbookSuffix(f) /\ f[1] # "~"}
        /\ \A key \in DOMAIN boms : HasWorkbookSuffix(boms[key]) /\ boms[key][1] # "~"

\* C21 witness: the folder held B.XLSM, b.xlsx, a.txt and ~a.xlsx, the last a
\* loadable workbook of assembly A; only the first two were loaded and A is
\* not in the registry
LockFileNotLoaded ==
    /\ op = "linked"
    /\ Cardinality(DOMAIN folder) = 4
    /\ folder[<<"~", "a", ".", "x", "l", "s", "x">>] = AssemblyA
    /\ LoadData(column_mapping, AssemblyA).is_loaded
    /\ DOMAIN stuecklisten = {<<"B", ".", "X", "L", "S", "M">>, <<"b", ".", "x", "l", "s", "x">>}
    /\ DOMAIN boms # {}
    /\ <<"A">> \notin DOMAIN boms

\* no Position of any object has a link yet
NothingLinked ==
    \A f \in DOMAIN stuecklisten : \A i \in 1..Len(stuecklisten[f].positionen) :
        "sub_assembly" \notin DOMAIN stuecklisten[f].positionen[i]

\* the part number of Position i of f, cleaned, is the number g is registered as
RefersTo(f, i, g) ==
    LET number == SelectSeq(Strip(BeforeParen(PartNumberText(stuecklisten[f].positionen[i]))),
                            LAMBDA c : c # SP)
    IN  number \in DOMAIN boms /\ boms[number] = g

LinkedTo(f, i, g) ==
    /\ "sub_assembly" \in DOMAIN stuecklisten[f].positionen[i]
    /\ stuecklisten[f].positionen[i]["sub_assembly"] = RefCell(g)

\* C26: no link is attached while files are still being loaded, and after the
\* linking pass a Position that refers to a registered object is linked to it
\* whether the object's file was loaded before or after the Position's file.
LinksAttachedAfterLoading ==
    /\ op = "loading" => NothingLinked
    /\ op = "linked" =>
          \A f, g \in Registered(boms) : \A i \in 1..Len(stuecklisten[f].positionen) :
              RefersTo(f, i, g) => LinkedTo(f, i, g)

\* C26 witness: of two files the first refers to the second, loaded after it,
\* and the second refers to the first; both Positions are linked
LinkedBothWays ==
    /\ op = "linked"
    /\ \E f, g \in Registered(boms) :
          /\ StrLess(f, g)
          /\ \E i \in 1..Len(stuecklisten[f].positionen) : LinkedTo(f, i, g)
          /\ \E i \in 1..Len(stuecklisten[g].positionen) : LinkedTo(g, i, f)

\* the items directly below the item at path
ChildrenOf(path) ==
    {item \in tree_widget :
        Len(item.path) = Len(path) + 1 /\ SubSeq(item.path, 1, Len(path)) = path}

\* the Position an item was made for
PositionOfItem(item) ==
    stuecklisten[item.path[Len(item.path)].bom].positionen[item.path[Len(item.path)].pos]

\* the number of levels of items below the root item
Levels == IF tree_widget = {} THEN 0
          ELSE CHOOSE n \in 1..(RecursionLimit + 1) :
                  /\ \E item \in tree_widget : Len(item.path) = n
                  /\ \A item \in tree_widget : Len(item.path) <= n

RevisionNumberRaw ==
    <<"0", "7", ".", "1", "2", "3", "-", "4", SP, "(", "R", "e", "v", ".", "B", ")">>

RevisionNumber == <<"0", "7", ".", "1", "2", "3", "-", "4">>

\* a folder of two files: the tree was filled from the one that has a Position
\* with part number "07.123-4 (Rev.B)", the other has drawing number "07.123-4"
RevisionScenario(root, other) ==
    /\ op = "tree"
    /\ DOMAIN folder = {root, other}
    /\ root # other
    /\ main_assembly = root
    /\ \E i \in 1..Len(stuecklisten[root].positionen) :
          PartNumberText(stuecklisten[root].positionen[i]) = RevisionNumberRaw
    /\ LoadedWithNumber(other)
    /\ stuecklisten[other].zeichnungsnummer = StrV(RevisionNumber)

\* C22: in the folder of two files the Position with part number
\* "07.123-4 (Rev.B)" is linked to the object 07.123-4; the walk marks exactly
\* the linked Positions as is_assembly, puts the Positions of the sub-assembly
\* below them as children, and the tree has exactly 2 levels below the root.
SuffixedNumberGivesTwoLevels ==
    \A root, other \in DOMAIN folder :
        RevisionScenario(root, other) =>
            /\ ~recursion_error
            /\ \A i \in 1..Len(stuecklisten[root].positionen) :
                  PartNumberText(stuecklisten[root].positionen[i]) = RevisionNumberRaw
                      => LinkedTo(root, i, other)
            /\ {item.path : item \in ChildrenOf(<<>>)} =
                  {<<[bom |-> root, pos |-> i]>> : i \in 1..Len(stuecklisten[root].positionen)}
            /\ \A item \in tree_widget :
                  /\ item.is_assembly <=> "sub_assembly" \in DOMAIN PositionOfItem(item)
                  /\ {child.path : child \in ChildrenOf(item.path)} =
                        IF "sub_assembly" \in DOMAIN PositionOfItem(item)
                        THEN {Append(item.path, [bom |-> other, pos |-> j]) :
                                 j \in 1..Len(stuecklisten[other].positionen)}
                        ELSE {}
            /\ Levels = 2

\* C22 witness: the tree of that folder: two items below the root, the first
\* an assembly with the two Positions of 07.123-4 below it
RevisionTreeBuilt ==
    \E root, other \in DOMAIN folder :
        /\ RevisionScenario(root, other)
        /\ Cardinality(tree_widget) = 4
        /\ Cardinality(ChildrenOf(<<>>)) = 2
        /\ Cardinality(ChildrenOf(<<[bom |-> root, pos |-> 1]>>)) = 2
        /\ \E item \in tree_widget : item.is_assembly
        /\ \E item \in tree_widget : ~item.is_assembly

\* the objects expanded on the way from the root item to the item
ObjectsOnPath(item) == {item.path[k].bom : k \in 1..Len(item.path)}

\* C23: the walk of the hierarchy terminates for every registry, also with
\* objects that refer to each other or to themselves: it does not end in
\* RecursionError, and an object already on the path from the root is not
\* expanded again.
WalkTerminatesOnCycles ==
    op = "tree" =>
        /\ ~recursion_error
        /\ \A item \in tree_widget :
              Cardinality(ObjectsOnPath(item)) = Len(item.path)

-----------------------------------------------------------------------------
(* ConfigManager: mapping.json merged with the defaults                    *)

\* what json.load makes of an object (k = "dict", d its members), a text, a
\* list or null
JValue(k, d, s) == [k |-> k, d |-> d, s |-> s]

\* _get_default_config, cut down to two mapping-valued keys with two members
\* each and the list-valued key
DefaultConfig ==
    LET text(s) == JValue("text", EmptyMap, s)
        rule(type) == JValue("dict", [f \in {"type"} |-> text(type)], "")
    IN  [key \in {"header_mapping", "generation_rules", "output_columns"} |->
            CASE key = "header_mapping" ->
                    JValue("dict", [sub \in {"titel", "zeichnungsnummer"} |->
                                       IF sub = "titel" THEN text("D2") ELSE text("G2")], "")
              [] key = "generation_rules" ->
                    JValue("dict",
                           [sub \in {"Benennung_Formatiert", "Bestellnummer_Kunde"} |->
                               IF sub = "Benennung_Formatiert"
                               THEN rule("combine") ELSE rule("prioritized_list")], "")
              [] OTHER -> JValue("list", EmptyMap, "std_pos")]

\* the values mapping.json may hold under a key of the defaults: for a
\* mapping-valued default null, an empty object, and objects with a value of
\* the user, with or without the other members, or with a member of their own
FileValues(key) ==
    IF key \in DOMAIN DefaultConfig /\ DefaultConfig[key].k = "dict"
    THEN LET d == DefaultConfig[key].d
             first == IF key = "header_mapping" THEN "titel" ELSE "Benennung_Formatiert"
             user == JValue("text", EmptyMap, "user")
         IN  {JValue("null", EmptyMap, ""),
              JValue("dict", EmptyMap, ""),
              JValue("dict", [sub \in {first} |-> user], ""),
              JValue("dict", [sub \in DOMAIN d |-> IF sub = first THEN user ELSE d[sub]], ""),
              JValue("dict", [sub \in (DOMAIN d) \cup {"custom"} |->
                                 IF sub = "custom" THEN user ELSE d[sub]], "")}
    ELSE {JValue("list", EmptyMap, "std_pos"), JValue("list", EmptyMap, "user")}

\* mapping.json: missing, no JSON, a JSON list, or a JSON object in which any
\* of the default keys may be missing and which may have a key of its own
ConfigFiles ==
    LET keys == (DOMAIN DefaultConfig) \cup {"user_key"}
        values == UNION {FileValues(key) : key \in keys}
        ConfigObjects ==
            UNION {{obj \in [D -> values] : \A key \in D : obj[key] \in FileValues(key)} :
                      D \in SUBSET keys}
    IN  {[k |-> kind, d |-> EmptyMap, writable |-> w] :
            kind \in {"missing", "invalid", "list"}, w \in BOOLEAN}
        \cup {[k |-> "object", d |-> obj, writable |-> w] :
                 obj \in ConfigObjects, w \in BOOLEAN}

\* save_config: the file is written unless open(..., 'w') raises IOError
SaveConfig(file, new_config) ==
    IF file.writable THEN [file EXCEPT !.k = "object", !.d = new_config] ELSE file

\* lines 127-135 raise TypeError when the file is no object, or holds no
\* object under a key whose default is a mapping
MergeRaises(file) ==
    \/ file.k = "list"
    \/ \E key \in DOMAIN DefaultConfig :
          /\ key \in DOMAIN file.d
          /\ DefaultConfig[key].k = "dict"
          /\ DOMAIN DefaultConfig[key].d # {}
          /\ file.d[key].k # "dict"

\* MergeSubKeys that adds no member
MergeSubKeysNone(value, default) == value

\* lines 132-135: the members of the default that the file's mapping lacks
MergeSubKeys(value, default) ==
    JValue("dict", [sub \in (DOMAIN value.d) \cup (DOMAIN default.d) |->
              IF sub \in DOMAIN value.d THEN value.d[sub] ELSE default.d[sub]], "")

\* lines 127-135: loaded_config after the loop
MergeDefaults(loaded_config) ==
    [key \in (DOMAIN loaded_config) \cup (DOMAIN DefaultConfig) |->
        IF key \notin DOMAIN loaded_config THEN DefaultConfig[key]
        ELSE IF key \in DOMAIN DefaultConfig /\ DefaultConfig[key].k = "dict"
        THEN MergeSubKeys(loaded_config[key], DefaultConfig[key])
        ELSE loaded_config[key]]

\* is_dirty after the loop
IsDirty(loaded_config) ==
    \E key \in DOMAIN DefaultConfig :
        \/ key \notin DOMAIN loaded_config
        \/ /\ DefaultConfig[key].k = "dict"
           /\ \E sub \in DOMAIN DefaultConfig[key].d : sub \notin DOMAIN loaded_config[key].d

\* _load_config: the configuration returned, the file afterwards, what was
\* written, and whether the call raised
LoadConfig(file) ==
    LET created == file.k = "missing" /\ file.writable
        present == IF file.k = "missing" THEN SaveConfig(file, DefaultConfig) ELSE file
        creation == IF created THEN {"create"} ELSE {}
    IN  IF present.k \in {"missing", "invalid"}
        THEN [config |-> DefaultConfig, file |-> present, written |-> creation,
              raised |-> FALSE]
        ELSE IF MergeRaises(present)
        THEN [config |-> EmptyMap, file |-> present, written |-> creation, raised |-> TRUE]
        ELSE LET loaded_config == MergeDefaults(present.d)
                 saved == IsDirty(present.d) /\ present.writable
             IN  [config |-> loaded_config,
                  file |-> IF IsDirty(present.d) THEN SaveConfig(present, loaded_config)
                           ELSE present,
                  written |-> creation \cup (IF saved THEN {"write_back"} ELSE {}),
                  raised |-> FALSE]

\* a project folder with its mapping.json, before any ConfigManager exists
InitConfig ==
    \E file \in ConfigFiles :
        /\ rules = <<>>
        /\ sorted_rules = NoOrder
        /\ cycle_nodes = {}
        /\ sorted_order = <<>>
        /\ in_degree = <<>>
        /\ reached_zero = {}
        /\ row_data = EmptyMap
        /\ arg_row = EmptyMap
        /\ local_row_data = EmptyMap
        /\ generated_data = EmptyMap
        /\ raised = FALSE
        /\ NoStueckliste
        /\ NoProcessor
        /\ config_file = file
        /\ config = EmptyMap
        /\ written = {}
        /\ op = "config_file"

\* ConfigManager(project_path): the window constructs one for a project and
\* another one whenever the project is opened again
NewConfigManager ==
    /\ op \in {"config_file", "config_loaded"}
    /\ LET res == LoadConfig(config_file)
       IN  /\ config' = IF res.raised THEN config ELSE res.config
           /\ config_file' = res.file
           /\ written' = res.written
           /\ op' = IF res.raised THEN "config_raised" ELSE "config_loaded"
    /\ UNCHANGED <<rules, sorted_rules, cycle_nodes, sorted_order, in_degree, reached_zero,
                   row_data, arg_row, local_row_data, generated_data, raised>>
    /\ UNCHANGED loaderVars
    /\ UNCHANGED runVars

NextConfig == NewConfigManager

SpecConfig == InitConfig /\ [][NextConfig]_vars

\* the value of the file is in the result: a mapping with each of its members
\* as it was, anything else unchanged
KeptIn(value, result) ==
    IF value.k = "dict"
    THEN /\ result.k = "dict"
         /\ \A sub \in DOMAIN value.d : sub \in DOMAIN result.d /\ result.d[sub] = value.d[sub]
    ELSE result = value

\* C24: a loaded configuration has every top-level key of the defaults and
\* every member of each mapping-valued default; what the file held is kept;
\* the file is written back only when something was added, and loading the
\* written-back file again adds and writes nothing.
ConfigLoadMergesDefaults ==
    [][op' = "config_loaded" =>
          /\ \A key \in DOMAIN DefaultConfig :
                /\ key \in DOMAIN config'
                /\ DefaultConfig[key].k = "dict" =>
                      /\ config'[key].k = "dict"
                      /\ DOMAIN DefaultConfig[key].d \subseteq DOMAIN config'[key].d
          /\ config_file.k = "object" =>
                /\ \A key \in DOMAIN config_file.d : KeptIn(config_file.d[key], config'[key])
                /\ "write_back" \in written' =>
                      (config' # config_file.d /\ config_file'.d = config')
                /\ "write_back" \notin written' => config_file' = config_file
          /\ (op = "config_loaded" /\ "write_back" \in written) =>
                (written' = {} /\ config' = config /\ config_file' = config_file)]_vars

\* C24 witness: the file held only a header mapping with the user's cell for
\* titel; the loaded configuration has that cell, the missing member and the
\* missing keys from the defaults, and was written back
UserValueKeptDefaultsAdded ==
    /\ op = "config_loaded"
    /\ written = {"write_back"}
    /\ config["header_mapping"].d["titel"] = JValue("text", EmptyMap, "user")
    /\ config["header_mapping"].d["zeichnungsnummer"] = JValue("text", EmptyMap, "G2")
    /\ config["generation_rules"] = DefaultConfig["generation_rules"]
    /\ config["output_columns"] = JValue("list", EmptyMap, "user")
    /\ config_file.d = config

-----------------------------------------------------------------------------
(* One row with a quantity and a unit                                      *)

\* sheets with one data row 1 | quantity | unit | ... | part type 1; the
\* quantity is 2.5, 1, 0, 12, 0.5, a blank, an empty text or the text "x"; the
\* unit is a blank, "1", "1.0", the number 1 or 2, "m", "Stk", "11", or a unit
\* with a space before or after
MengeWorkbooks ==
    LET QuantityCells ==
            {NumCell(25), NumCell(10), NumCell(0), NumCell(120), NumCell(5), BlankCell,
             TextCell(<<>>), TextCell(<<"x">>)}
        UnitCells ==
            {BlankCell, TextCell(<<"1">>), TextCell(<<"1", ".", "0">>), NumCell(10),
             NumCell(20), TextCell(<<"m">>), TextCell(<<"S", "t", "k">>),
             TextCell(<<"1", "1">>), TextCell(<<SP, "1">>), TextCell(<<"m", SP>>)}
    IN  {[has_import |-> TRUE, znr |-> StrV(<<"A">>), ncols |-> 13,
          rows |-> <<[c \in {0, 1, 2, 12} |->
                        CASE c = 1 -> q [] c = 2 -> u [] OTHER -> NumCell(10)]>>] :
            q \in QuantityCells, u \in UnitCells}

\* a Stueckliste about to load one of these sheets under the default mapping
\* of the columns of the quantity, with or without the column of the unit
InitMenge ==
    \E m \in {[POS |-> "A", Menge_val |-> "B", Einheit |-> "C", Teileart |-> "M"],
              [POS |-> "A", Menge_val |-> "B", Teileart |-> "M"]},
       wb \in MengeWorkbooks :
        /\ rules = <<>>
        /\ sorted_rules = NoOrder
        /\ cycle_nodes = {}
        /\ sorted_order = <<>>
        /\ in_degree = <<>>
        /\ reached_zero = {}
        /\ row_data = EmptyMap
        /\ arg_row = EmptyMap
        /\ local_row_data = EmptyMap
        /\ generated_data = EmptyMap
        /\ raised = FALSE
        /\ column_mapping = m
        /\ workbook = wb
        /\ is_loaded = FALSE
        /\ positionen = <<>>
        /\ load_exit = "none"
        /\ df_items = <<>>
        /\ zeichnungsnummer = NoneV
        /\ NoProcessor
        /\ NoConfig
        /\ op = "file"

SpecMenge == InitMenge /\ [][NextLoad]_vars

\* a number given in tenths, written without a fraction when it is whole
QuantityText(n) ==
    IF n % 10 = 0 THEN NatDigits(n \div 10)
    ELSE NatDigits(n \div 10) \o <<".", DigitChars[(n % 10) + 1]>>

\* the unit of a Position as text: '' without a unit, a number as a float
UnitText(position) ==
    IF "Einheit" \notin DOMAIN position THEN <<>>
    ELSE IF position["Einheit"].k = "str" THEN position["Einheit"].s
    ELSE NatDigits(position["Einheit"].n \div 10)
             \o <<".", DigitChars[(position["Einheit"].n % 10) + 1]>>

\* the unit as displayed: Stk for "1" and "1.0"
ShownUnit(unit) ==
    IF unit = <<"1">> \/ unit = <<"1", ".", "0">> THEN <<"S", "t", "k">> ELSE unit

\* C25: the displayed quantity of a Position is its numeric quantity, a space
\* and its unit (without surrounding whitespace), with Stk in place of a unit
\* "1" or "1.0" and any other unit as it is; it is the empty string for a
\* Position whose quantity is empty or missing.
DisplayedQuantityHasUnit ==
    (op = "load" /\ is_loaded) =>
        \A i \in 1..Len(positionen) :
            positionen[i]["Menge"] =
                TextCell(IF positionen[i]["Menge_val"].k = "num"
                         THEN Strip(QuantityText(positionen[i]["Menge_val"].n) \o <<SP>>
                                      \o ShownUnit(UnitText(positionen[i])))
                         ELSE <<>>)

\* C25 witness: the quantity 2.5 of a row whose unit cell holds the number 1
\* is displayed as "2.5 Stk"
QuantityShownWithStk ==
    /\ op = "load"
    /\ is_loaded
    /\ Len(positionen) = 1
    /\ positionen[1]["Menge_val"] = NumCell(25)
    /\ "Einheit" \in DOMAIN positionen[1]
    /\ positionen[1]["Einheit"] = NumCell(10)
    /\ positionen[1]["Menge"] = TextCell(<<"2", ".", "5", SP, "S", "t", "k">>)

====
